---- MODULE Spec2Model ----
(***************************************************************************)
(* Model of educe.rst_dt.dep2con: the nuclearity classifier                *)
(* (DummyNuclearityClassifier), the attachment ranker                      *)
(* (InsideOutAttachmentRanker.predict) and the dependency-to-constituency  *)
(* conversion (deptree_to_simple_rst_tree); and of educe.stac.rfc: the     *)
(* right frontier constraint (BasicRfc).                                   *)
(*                                                                         *)
(* A dependency tree over n units is the record dtree:                     *)
(*   heads    1..n -> 0..n   head of every unit, 0 is the fake root        *)
(*   labels   1..n -> label  relation of the edge from the head            *)
(*   nucs     1..n -> nuc    nuclearity of the unit                        *)
(*   ranks    0..n -> Nat    attachment rank (once attached)               *)
(*   edus     0..n -> [num, span]   unit 0 is the left padding             *)
(*   idx      0..n -> 0..n                                                 *)
(*   sent_idx 0..n -> Nat, with has_sent_idx telling whether the attribute *)
(*            is there at all.                                             *)
(***************************************************************************)
EXTENDS Integers, Sequences, FiniteSets, TLC

\* Largest number of units of a tree.
MaxN == 4

\* Largest number of units of a tree predicted in a batch, and of the
\* other tree of the batch.
MaxBatchN == 3

MaxOtherN == 2

\* Largest number of sentences of a tree.
MaxSent == 3

\* Largest number of discourse units of a graph, and of relation instances
\* between them.
MaxRfcN == 3

MaxRels == 3

\* The yields of one node are counted up to this number.
MaxYields == 2

NUC_N == "Nucleus"
NUC_S == "Satellite"
NUC_R == "Root"

Strategies ==
    << "id", "lllrrr", "rrrlll", "lrlrlr", "rlrlrl", "closest-lr", "closest-rl",
       "closest-intra-lr-inter-lr", "closest-intra-rl-inter-rl",
       "closest-intra-rl-inter-lr" >>

StrategySet == { Strategies[i] : i \in 1..Len(Strategies) }

IntraStrategies ==
    { "closest-intra-lr-inter-lr", "closest-intra-rl-inter-rl",
      "closest-intra-rl-inter-lr" }

(***************************************************************************)
(* Python list helpers.                                                    *)
(***************************************************************************)
Abs(x) == IF x < 0 THEN 0 - x ELSE x

Min2(a, b) == IF a <= b THEN a ELSE b

Max2(a, b) == IF a >= b THEN a ELSE b

\* x in lst
Contains(lst, x) == \E i \in 1..Len(lst) : lst[i] = x

\* list(reversed(lst))
Reversed(lst) == [ i \in 1..Len(lst) |-> lst[Len(lst) + 1 - i] ]

\* lst[:-1], the list after lst.pop()
Front(lst) == SubSeq(lst, 1, Len(lst) - 1)

\* lst[-1], the value of lst.pop()
Last(lst) == lst[Len(lst)]

\* lst.index(x): position (from 1) of the first occurrence of x
IndexOf(lst, x) == CHOOSE i \in 1..Len(lst) : lst[i] = x /\ \A j \in 1..(i - 1) : lst[j] # x

\* tuple comparison k1 < k2 of two keys of the same length
RECURSIVE KeyLess(_, _)
KeyLess(k1, k2) ==
    IF Len(k1) = 0 \/ Len(k2) = 0 THEN Len(k1) < Len(k2)
    ELSE IF k1[1] # k2[1] THEN k1[1] < k2[1]
    ELSE KeyLess(Tail(k1), Tail(k2))

\* insert the pair p behind every pair whose key is not greater than p's
RECURSIVE InsertPair(_, _)
InsertPair(done, p) ==
    IF done = << >> THEN << p >>
    ELSE IF KeyLess(p.key, Last(done).key)
         THEN Append(InsertPair(Front(done), p), Last(done))
         ELSE Append(done, p)

\* sorted(pairs, key=...) on a list of [key, val] pairs: stable
RECURSIVE SortPairs(_)
SortPairs(pairs) ==
    IF pairs = << >> THEN << >>
    ELSE InsertPair(SortPairs(Front(pairs)), Last(pairs))

Vals(pairs) == [ i \in 1..Len(pairs) |-> pairs[i].val ]

(***************************************************************************)
(* InsideOutAttachmentRanker.predict, for one tree.                        *)
(* A list result is the record [err, seq]: err = "" when the computation   *)
(* completed, otherwise the name of the exception it raised.               *)
(***************************************************************************)
NumUnits(dt) == Len(dt.heads)

Ok(seq) == [ err |-> "", seq |-> seq ]

Raise(name) == [ err |-> name, seq |-> << >> ]

\* the elements of a set of integers in ascending order
RECURSIVE Ascending(_)
Ascending(S) ==
    IF S = {} THEN << >>
    ELSE LET m == CHOOSE x \in S : \A y \in S : x <= y
         IN  << m >> \o Ascending(S \ {m})

\* unique_heads = set(dtree.heads[1:])
unique_heads(dt) == { dt.heads[i] : i \in 1..NumUnits(dt) }

\* A Python 2.7 set of small integers, as CPython keeps it: a table of
\* mask + 1 slots, a slot holding a key or being free; the hash of an
\* integer is the integer.
PySet_MINSIZE == 8

FreeSlot == 0 - 1

empty_set(size) ==
    [ table |-> [ i \in 0..(size - 1) |-> FreeSlot ], mask |-> size - 1, used |-> 0 ]

\* set_lookkey: the slot of key, the first one on its probe sequence that
\* is free or holds key; i = (i << 2) + i + perturb + 1, perturb >>= 5
RECURSIVE set_probe(_, _, _, _)
set_probe(so, key, i, perturb) ==
    LET slot == i % (so.mask + 1)
    IN  IF so.table[slot] \in { FreeSlot, key } THEN slot
        ELSE set_probe(so, key, 5 * i + perturb + 1, perturb \div 32)

set_lookkey(so, key) ==
    LET i == key % (so.mask + 1)
    IN  IF so.table[i] \in { FreeSlot, key } THEN i
        ELSE set_probe(so, key, 5 * i + key + 1, key \div 32)

\* set_insert_key: key is put in its slot when it is not there
set_insert_key(so, key) ==
    LET slot == set_lookkey(so, key)
    IN  IF so.table[slot] = key THEN so
        ELSE [ so EXCEPT !.table[slot] = key, !.used = @ + 1 ]

\* the keys of the table in the order of the slots: the order of iteration
set_keys(so) ==
    SelectSeq([ i \in 1..(so.mask + 1) |-> so.table[i - 1] ],
              LAMBDA key : key # FreeSlot)

RECURSIVE set_insert_all(_, _)
set_insert_all(so, keys) ==
    IF keys = << >> THEN so
    ELSE set_insert_all(set_insert_key(so, Head(keys)), Tail(keys))

\* the size set_table_resize takes: the first of 8, 16, 32, ... above minused
RECURSIVE set_newsize(_, _)
set_newsize(size, minused) ==
    IF size > minused THEN size ELSE set_newsize(2 * size, minused)

\* set_table_resize: the keys are put again, in the order of the old slots
set_table_resize(so, minused) ==
    set_insert_all(empty_set(set_newsize(PySet_MINSIZE, minused)), set_keys(so))

\* set_add_key: the table is resized when a key was added and two thirds
\* of the slots are taken, for four times the keys it holds, or twice when
\* it holds more than 50000:
\* set_table_resize(so, so->used>50000 ? so->used*2 : so->used*4)
set_add_key(so, key) ==
    LET added == set_insert_key(so, key)
    IN  IF added.used > so.used /\ added.used * 3 >= (added.mask + 1) * 2
        THEN set_table_resize(added, IF added.used > 50000 THEN added.used * 2
                                     ELSE added.used * 4)
        ELSE added

RECURSIVE set_update(_, _)
set_update(so, keys) ==
    IF keys = << >> THEN so
    ELSE set_update(set_add_key(so, Head(keys)), Tail(keys))

\* the elements of set(items) in the order "for x in set(items)" takes them
set_iteration(items) == set_keys(set_update(empty_set(PySet_MINSIZE), items))

\* for head in unique_heads
heads_iterated(dt) == set_iteration(dt.heads)

\* targets = [i for i, hd in enumerate(dtree.heads) if hd == head]
targets_of(dt, head) ==
    SelectSeq([ i \in 1..NumUnits(dt) |-> i ], LAMBDA i : dt.heads[i] = head)

\* sorted([head] + targets, key=lambda x: dtree.edus[x].span.char_start)
sorted_nodes_of(dt, head, targets) ==
    LET nodes == << head >> \o targets
    IN  Vals(SortPairs([ i \in 1..Len(nodes) |->
                  [ key |-> << dt.edus[nodes[i]].span.char_start >>,
                    val |-> nodes[i] ] ]))

\* left = sorted_nodes[:centre], a stack (outside ... inside)
left_of(sorted_nodes, head) ==
    SubSeq(sorted_nodes, 1, IndexOf(sorted_nodes, head) - 1)

\* variant of right_of: the reversal forgotten, the stack is (inside ... outside)
right_of_not_reversed(sorted_nodes, head) ==
    SubSeq(sorted_nodes, IndexOf(sorted_nodes, head) + 1, Len(sorted_nodes))

\* right = list(reversed(sorted_nodes[centre+1:])), a stack (outside ... inside)
right_of(sorted_nodes, head) ==
    Reversed(SubSeq(sorted_nodes, IndexOf(sorted_nodes, head) + 1, Len(sorted_nodes)))

\* variant of takes_left_id: the membership test made on the other stack
takes_left_id_in_right(tree, left, right) == Contains(right, tree)

\* 'id': left.pop() if (tree in left) else right.pop()
takes_left_id(tree, left, right) == Contains(left, tree)

\* variant of takes_left_lllrrr: the right stack is emptied first
takes_left_lllrrr_right_first(tree, left, right) == right = << >>

\* 'lllrrr': left.pop() if left else right.pop()
takes_left_lllrrr(tree, left, right) == left # << >>

\* 'rrrlll': right.pop() if right else left.pop()
takes_left_rrrlll(tree, left, right) == right = << >>

takes_left(strategy, tree, left, right) ==
    CASE strategy = "id"     -> takes_left_id(tree, left, right)
      [] strategy = "lllrrr" -> takes_left_lllrrr(tree, left, right)
      [] strategy = "rrrlll" -> takes_left_rrrlll(tree, left, right)

\* the list comprehension [... for tree in targets] of 'id', 'lllrrr' and
\* 'rrrlll'; pop() of an empty list raises IndexError
RECURSIVE pop_each(_, _, _, _)
pop_each(strategy, targets, left, right) ==
    IF targets = << >> THEN Ok(<< >>)
    ELSE IF takes_left(strategy, Head(targets), left, right)
    THEN IF left = << >> THEN Raise("IndexError")
         ELSE LET rest == pop_each(strategy, Tail(targets), Front(left), right)
              IN  IF rest.err # "" THEN rest ELSE Ok(<< Last(left) >> \o rest.seq)
    ELSE IF right = << >> THEN Raise("IndexError")
         ELSE LET rest == pop_each(strategy, Tail(targets), left, Front(right))
              IN  IF rest.err # "" THEN rest ELSE Ok(<< Last(right) >> \o rest.seq)

\* itertools.izip_longest(a, b): pairs, the shorter list padded with None;
\* an item is [some, val], some = FALSE standing for None
izip_longest(a, b) ==
    LET item(lst, i) == IF i <= Len(lst) THEN [ some |-> TRUE, val |-> lst[i] ]
                        ELSE [ some |-> FALSE, val |-> 0 ]
    IN  [ i \in 1..Max2(Len(a), Len(b)) |-> << item(a, i), item(b, i) >> ]

\* itertools.chain.from_iterable(pairs)
chain_from_iterable(pairs) ==
    [ i \in 1..(2 * Len(pairs)) |-> pairs[(i + 1) \div 2][2 - (i % 2)] ]

\* [x for x in gen if x is not None]
not_none(items) ==
    LET kept == SelectSeq(items, LAMBDA x : x.some)
    IN  [ i \in 1..Len(kept) |-> kept[i].val ]

\* variant of rank_lrlrlr: the two queues zipped the other way round
rank_lrlrlr_right_first(left, right) ==
    LET left_io  == Reversed(left)
        right_io == Reversed(right)
    IN  not_none(chain_from_iterable(izip_longest(right_io, left_io)))

\* 'lrlrlr'
rank_lrlrlr(left, right) ==
    LET left_io  == Reversed(left)
        right_io == Reversed(right)
    IN  not_none(chain_from_iterable(izip_longest(left_io, right_io)))

\* 'rlrlrl'
rank_rlrlrl(left, right) ==
    LET left_io  == Reversed(left)
        right_io == Reversed(right)
    IN  not_none(chain_from_iterable(izip_longest(right_io, left_io)))

\* sorted(targets, key=sort_key), the keys given as a function of the target
sorted_by(targets, key) ==
    Vals(SortPairs([ i \in 1..Len(targets) |->
                      [ key |-> key[targets[i]], val |-> targets[i] ] ]))

\* 'closest-rl': (abs(idx[e] - head_idx), 1 if idx[e] > head_idx else 2)
sort_key_closest_rl(dt, head, e) ==
    << Abs(dt.idx[e] - dt.idx[head]),
       IF dt.idx[e] > dt.idx[head] THEN 1 ELSE 2 >>

\* variant of sort_key_closest_lr: the tie broken for the right
sort_key_closest_lr_right_first(dt, head, e) ==
    << Abs(dt.idx[e] - dt.idx[head]),
       IF dt.idx[e] > dt.idx[head] THEN 1 ELSE 2 >>

\* 'closest-lr': (abs(idx[e] - head_idx), 2 if idx[e] > head_idx else 1)
sort_key_closest_lr(dt, head, e) ==
    << Abs(dt.idx[e] - dt.idx[head]),
       IF dt.idx[e] > dt.idx[head] THEN 2 ELSE 1 >>

\* dtree.sent_idx[dtree.idx[e]] == dtree.sent_idx[dtree.idx[head]]
same_sentence(dt, head, e) ==
    dt.sent_idx[dt.idx[e]] = dt.sent_idx[dt.idx[head]]

\* variant of sort_key_intra_rl_inter_lr: the sentence of the head is not
\* looked at before the distance
sort_key_intra_rl_inter_lr_distance_first(dt, head, e) ==
    << 1,
       Abs(dt.idx[e] - dt.idx[head]),
       IF \/ (dt.idx[e] > dt.idx[head] /\ same_sentence(dt, head, e))
          \/ (dt.idx[e] < dt.idx[head] /\ ~same_sentence(dt, head, e))
       THEN 1 ELSE 2 >>

\* 'closest-intra-rl-inter-lr'
sort_key_intra_rl_inter_lr(dt, head, e) ==
    << IF same_sentence(dt, head, e) THEN 1 ELSE 2,
       Abs(dt.idx[e] - dt.idx[head]),
       IF \/ (dt.idx[e] > dt.idx[head] /\ same_sentence(dt, head, e))
          \/ (dt.idx[e] < dt.idx[head] /\ ~same_sentence(dt, head, e))
       THEN 1 ELSE 2 >>

\* 'closest-intra-rl-inter-rl'
sort_key_intra_rl_inter_rl(dt, head, e) ==
    << IF same_sentence(dt, head, e) THEN 1 ELSE 2,
       Abs(dt.idx[e] - dt.idx[head]),
       IF dt.idx[e] > dt.idx[head] THEN 1 ELSE 2 >>

\* 'closest-intra-lr-inter-lr'
sort_key_intra_lr_inter_lr(dt, head, e) ==
    << IF same_sentence(dt, head, e) THEN 1 ELSE 2,
       Abs(dt.idx[e] - dt.idx[head]),
       IF dt.idx[e] > dt.idx[head] THEN 2 ELSE 1 >>

sort_key(strategy, dt, head, e) ==
    CASE strategy = "closest-rl" -> sort_key_closest_rl(dt, head, e)
      [] strategy = "closest-lr" -> sort_key_closest_lr(dt, head, e)
      [] strategy = "closest-intra-rl-inter-lr" -> sort_key_intra_rl_inter_lr(dt, head, e)
      [] strategy = "closest-intra-rl-inter-rl" -> sort_key_intra_rl_inter_rl(dt, head, e)
      [] strategy = "closest-intra-lr-inter-lr" -> sort_key_intra_lr_inter_lr(dt, head, e)

\* result = sorted(targets, key=sort_key)
rank_closest(strategy, dt, head, targets) ==
    sorted_by(targets, [ e \in 1..NumUnits(dt) |-> sort_key(strategy, dt, head, e) ])

\* not hasattr(dtree, 'sent_idx')
missing_sent_idx(dt) == ~dt.has_sent_idx

\* the body of "for head in unique_heads" up to result
result_of(strategy, dt, head) ==
    LET targets      == targets_of(dt, head)
        sorted_nodes == sorted_nodes_of(dt, head, targets)
        left         == left_of(sorted_nodes, head)
        right        == right_of(sorted_nodes, head)
    IN  IF strategy \in { "id", "lllrrr", "rrrlll" }
            THEN pop_each(strategy, targets, left, right)
        ELSE IF strategy = "lrlrlr" THEN Ok(rank_lrlrlr(left, right))
        ELSE IF strategy = "rlrlrl" THEN Ok(rank_rlrlrl(left, right))
        ELSE IF strategy \in { "closest-rl", "closest-lr" }
            THEN Ok(rank_closest(strategy, dt, head, targets))
        ELSE IF missing_sent_idx(dt) THEN Raise("ValueError")
        ELSE IF strategy \in IntraStrategies
            THEN Ok(rank_closest(strategy, dt, head, targets))
        ELSE Raise("RstDtException")

\* variant of update_ranks: the ranks of a head's children start after the
\* number of units ranked so far
RECURSIVE update_ranks_running(_, _, _)
update_ranks_running(ranks, result, i) ==
    IF result = << >> THEN ranks
    ELSE update_ranks_running(
             [ ranks EXCEPT ![Head(result)] =
                 i + Cardinality({ j \in DOMAIN ranks : ranks[j] > 0 }) ],
             Tail(result), i + 1)

\* for i, tgt in enumerate(result): ranks[tgt] = i
RECURSIVE update_ranks(_, _, _)
update_ranks(ranks, result, i) ==
    IF result = << >> THEN ranks
    ELSE update_ranks([ ranks EXCEPT ![Head(result)] = i ], Tail(result), i + 1)

\* the loop "for head in unique_heads"; the first exception ends it
RECURSIVE rank_heads(_, _, _, _)
rank_heads(strategy, dt, hs, ranks) ==
    IF hs = << >> THEN [ err |-> "", ranks |-> ranks ]
    ELSE LET result == result_of(strategy, dt, Head(hs))
         IN  IF result.err # "" THEN [ err |-> result.err, ranks |-> << >> ]
             ELSE rank_heads(strategy, dt, Tail(hs), update_ranks(ranks, result.seq, 0))

\* the ranks of one tree: [err, ranks]
predict_ranks(strategy, dt) ==
    rank_heads(strategy, dt, heads_iterated(dt),
               [ i \in 0..NumUnits(dt) |-> 0 ])

\* predict(X) on a list of trees, orders[k] being the order in which the
\* set of heads of X[k] is iterated: the rank arrays of the trees, or the
\* first exception: [err, dt_ranks]
RECURSIVE predict_batch(_, _, _)
predict_batch(strategy, X, orders) ==
    IF X = << >> THEN [ err |-> "", dt_ranks |-> << >> ]
    ELSE LET dt    == Head(X)
             ranks == rank_heads(strategy, dt, Head(orders),
                                 [ i \in 0..NumUnits(dt) |-> 0 ])
         IN  IF ranks.err # "" THEN [ err |-> ranks.err, dt_ranks |-> << >> ]
             ELSE LET rest == predict_batch(strategy, Tail(X), Tail(orders))
                  IN  IF rest.err # "" THEN rest
                      ELSE [ err |-> "", dt_ranks |-> << ranks.ranks >> \o rest.dt_ranks ]

(***************************************************************************)
(* Spans, units and the accessors of RstDepTree used by the conversion.    *)
(***************************************************************************)
\* Span.encloses
encloses(a, b) == a.char_start <= b.char_start /\ a.char_end >= b.char_end

\* Span.overlaps: the spans have a region in common
overlaps(a, b) ==
    \/ encloses(a, b)
    \/ encloses(b, a)
    \/ Max2(a.char_start, b.char_start) < Min2(a.char_end, b.char_end)

\* Span.__le__: spans are ordered by (char_start, char_end)
span_le(a, b) ==
    \/ a.char_start < b.char_start
    \/ (a.char_start = b.char_start /\ a.char_end <= b.char_end)

\* Span.merge: the smallest span covering both
merge(a, b) ==
    [ char_start |-> Min2(a.char_start, b.char_start),
      char_end   |-> Max2(a.char_end, b.char_end) ]

\* RstDepTree.deps: the dependents of gov_idx, by (rank, index)
deps(dt, gov_idx) ==
    LET targets == targets_of(dt, gov_idx)
    IN  Vals(SortPairs([ i \in 1..Len(targets) |->
                  [ key |-> << dt.ranks[targets[i]], targets[i] >>,
                    val |-> targets[i] ] ]))

\* RstDepTree.real_roots_idx: the dependents of the fake root
real_roots_idx(dt) == deps(dt, 0)

(***************************************************************************)
(* deptree_to_simple_rst_tree.                                             *)
(* TreeParts is the record [edu, edu_span, span, rel, kids]; a             *)
(* SimpleRSTTree is [node, kids] with node = [nuclearity, edu_span, span,  *)
(* rel] and kids either two trees or the one unit of a leaf.  A result     *)
(* that may raise is [err, parts].                                         *)
(***************************************************************************)
None == [ none |-> TRUE ]

OkParts(parts) == [ err |-> "", parts |-> parts ]

RaiseParts(name) == [ err |-> name, parts |-> None ]

mk_leaf(edu) ==
    [ edu      |-> edu,
      edu_span |-> << edu.num, edu.num >>,
      span     |-> edu.span,
      rel      |-> "leaf",
      kids     |-> << >> ]

parts_to_tree(nuclearity, parts) ==
    [ node |-> [ nuclearity |-> nuclearity,
                 edu_span   |-> parts.edu_span,
                 span       |-> parts.span,
                 rel        |-> parts.rel ],
      kids |-> IF parts.kids # << >> THEN parts.kids ELSE << parts.edu >> ]

\* treenode(tree)
treenode(tree) == tree.node

\* variant of connect_left: src is put on the left wherever it lies
connect_left_src_first(src, tgt, tgt_nuc) == parts_to_tree(NUC_N, src)

\* variant of connect_left: the earlier of the two is wrapped as Nucleus
\* whichever it is
connect_left_always_nucleus(src, tgt, tgt_nuc) ==
    IF span_le(src.span, tgt.span) THEN parts_to_tree(NUC_N, src)
    ELSE parts_to_tree(NUC_N, tgt)

\* the two children of connect_trees, in text order
connect_left(src, tgt, tgt_nuc) ==
    IF span_le(src.span, tgt.span) THEN parts_to_tree(NUC_N, src)
    ELSE parts_to_tree(tgt_nuc, tgt)

\* variant of connect_right: src takes the nuclearity of tgt when it is the
\* later of the two
connect_right_src_as_tgt(src, tgt, tgt_nuc) ==
    IF span_le(src.span, tgt.span) THEN parts_to_tree(tgt_nuc, tgt)
    ELSE parts_to_tree(tgt_nuc, src)

connect_right(src, tgt, tgt_nuc) ==
    IF span_le(src.span, tgt.span) THEN parts_to_tree(tgt_nuc, tgt)
    ELSE parts_to_tree(NUC_N, src)

\* variant of connect_trees: the span of src kept instead of the merged span
connect_trees_keeps_src_span(src, tgt, rel, nuc) ==
    IF overlaps(src.span, tgt.span) THEN RaiseParts("RstDtException")
    ELSE LET left       == connect_left(src, tgt, nuc)
             right      == connect_right(src, tgt, nuc)
             l_edu_span == treenode(left).edu_span
             r_edu_span == treenode(right).edu_span
         IN  OkParts([ edu      |-> src.edu,
                       edu_span |-> << Min2(l_edu_span[1], r_edu_span[1]),
                                       Max2(l_edu_span[2], r_edu_span[2]) >>,
                       span     |-> src.span,
                       rel      |-> rel,
                       kids     |-> << left, right >> ])

\* variant of connect_trees: spans that overlap are connected like any
connect_trees_overlap_accepted(src, tgt, rel, nuc) ==
    LET left       == connect_left(src, tgt, nuc)
        right      == connect_right(src, tgt, nuc)
        l_edu_span == treenode(left).edu_span
        r_edu_span == treenode(right).edu_span
    IN  OkParts([ edu      |-> src.edu,
                  edu_span |-> << Min2(l_edu_span[1], r_edu_span[1]),
                                  Max2(l_edu_span[2], r_edu_span[2]) >>,
                  span     |-> merge(src.span, tgt.span),
                  rel      |-> rel,
                  kids     |-> << left, right >> ])

connect_trees(src, tgt, rel, nuc) ==
    IF overlaps(src.span, tgt.span) THEN RaiseParts("RstDtException")
    ELSE LET left       == connect_left(src, tgt, nuc)
             right      == connect_right(src, tgt, nuc)
             l_edu_span == treenode(left).edu_span
             r_edu_span == treenode(right).edu_span
         IN  OkParts([ edu      |-> src.edu,
                       edu_span |-> << Min2(l_edu_span[1], r_edu_span[1]),
                                       Max2(l_edu_span[2], r_edu_span[2]) >>,
                       span     |-> merge(src.span, tgt.span),
                       rel      |-> rel,
                       kids     |-> << left, right >> ])

RECURSIVE walk(_, _, _)
RECURSIVE fold_targets(_, _, _)
\* variant of fold_targets: the first target only is attached
fold_targets_first_only(dt, src, ranked_targets) ==
    IF ranked_targets = << >> THEN OkParts(src)
    ELSE walk(dt, src, Head(ranked_targets))

\* for tgt in ranked_targets: src = walk(src, tgt)
fold_targets(dt, src, ranked_targets) ==
    IF ranked_targets = << >> THEN OkParts(src)
    ELSE LET res == walk(dt, src, Head(ranked_targets))
         IN  IF res.err # "" THEN res
             ELSE fold_targets(dt, res.parts, Tail(ranked_targets))

walk(dt, ancestor, subtree) ==
    LET rel == dt.labels[subtree]
        nuc == dt.nucs[subtree]
        src == fold_targets(dt, mk_leaf(dt.edus[subtree]), deps(dt, subtree))
    IN  IF src.err # "" THEN src
        ELSE IF ancestor # None THEN connect_trees(ancestor, src.parts, rel, nuc)
        ELSE src

\* walk, with the calls it makes counted: walks is the number of calls of
\* walk, connects of connect_trees, depth the largest number of calls of
\* walk inside one another
RECURSIVE walk_counted(_, _, _)
RECURSIVE fold_counted(_, _, _, _)
fold_counted(dt, src, ranked_targets, acc) ==
    IF ranked_targets = << >>
    THEN [ err |-> "", parts |-> src, walks |-> acc.walks,
           connects |-> acc.connects, depth |-> acc.depth ]
    ELSE LET res  == walk_counted(dt, src, Head(ranked_targets))
             acc2 == [ walks    |-> acc.walks + res.walks,
                       connects |-> acc.connects + res.connects,
                       depth    |-> Max2(acc.depth, res.depth) ]
         IN  IF res.err # ""
             THEN [ err |-> res.err, parts |-> None, walks |-> acc2.walks,
                    connects |-> acc2.connects, depth |-> acc2.depth ]
             ELSE fold_counted(dt, res.parts, Tail(ranked_targets), acc2)

walk_counted(dt, ancestor, subtree) ==
    LET rel == dt.labels[subtree]
        nuc == dt.nucs[subtree]
        src == fold_counted(dt, mk_leaf(dt.edus[subtree]), deps(dt, subtree),
                            [ walks |-> 1, connects |-> 0, depth |-> 0 ])
    IN  IF src.err # "" \/ ancestor = None
        THEN [ src EXCEPT !.depth = src.depth + 1 ]
        ELSE LET res == connect_trees(ancestor, src.parts, rel, nuc)
             IN  [ err |-> res.err, parts |-> res.parts, walks |-> src.walks,
                   connects |-> src.connects + 1, depth |-> src.depth + 1 ]

\* the calls made by deptree_to_simple_rst_tree(dt)
conversion_calls(dt) ==
    LET roots == real_roots_idx(dt)
    IN  IF Len(roots) = 1
        THEN LET res == walk_counted(dt, None, roots[1])
             IN  [ walks |-> res.walks, connects |-> res.connects, depth |-> res.depth ]
        ELSE [ walks |-> 0, connects |-> 0, depth |-> 0 ]

\* variant of deptree_to_simple_rst_tree: the first root taken when there
\* are several
deptree_to_simple_rst_tree_first_root(dt) ==
    LET roots == real_roots_idx(dt)
    IN  IF Len(roots) >= 1
        THEN LET rparts == walk(dt, None, roots[1])
             IN  IF rparts.err # ""
                 THEN [ err |-> rparts.err, tree |-> None, roots |-> << >> ]
                 ELSE [ err |-> "", tree |-> parts_to_tree(NUC_R, rparts.parts),
                        roots |-> << >> ]
        ELSE [ err |-> "RstDtException", tree |-> None, roots |-> roots ]

\* variant of deptree_to_simple_rst_tree: the top node is wrapped like the
\* head side of a connection
deptree_to_simple_rst_tree_top_nucleus(dt) ==
    LET roots == real_roots_idx(dt)
    IN  IF Len(roots) = 1
        THEN LET rparts == walk(dt, None, roots[1])
             IN  IF rparts.err # ""
                 THEN [ err |-> rparts.err, tree |-> None, roots |-> << >> ]
                 ELSE [ err |-> "", tree |-> parts_to_tree(NUC_N, rparts.parts),
                        roots |-> << >> ]
        ELSE [ err |-> "RstDtException", tree |-> None, roots |-> roots ]

\* the conversion of one tree: [err, tree, roots]; roots are the roots the
\* exception names
deptree_to_simple_rst_tree(dt) ==
    LET roots == real_roots_idx(dt)
    IN  IF Len(roots) = 1
        THEN LET rparts == walk(dt, None, roots[1])
             IN  IF rparts.err # ""
                 THEN [ err |-> rparts.err, tree |-> None, roots |-> << >> ]
                 ELSE [ err |-> "", tree |-> parts_to_tree(NUC_R, rparts.parts),
                        roots |-> << >> ]
        ELSE [ err |-> "RstDtException", tree |-> None, roots |-> roots ]

(***************************************************************************)
(* The trees given to the program.                                         *)
(***************************************************************************)
SpanLayouts == { "apart", "overlapping" }

\* The units lie in text order.  Under "apart" no two units overlap; under
\* "overlapping" the first unit runs into the second.
unit_span(layout, i) ==
    [ char_start |-> 3 * (i - 1),
      char_end   |-> IF layout = "overlapping" /\ i = 1 THEN 3 * (i - 1) + 4
                     ELSE 3 * (i - 1) + 2 ]

\* EDU.left_padding
left_padding == [ num |-> 0, span |-> [ char_start |-> 0, char_end |-> 0 ] ]

LabelNames == << "L", "ROOT", "R1", "R2" >>

unit_label(i) == IF i <= Len(LabelNames) THEN LabelNames[i] ELSE "joint"

\* relation names of the corpus, some of them multinuclear
RelationNames == << "joint", "elaboration", "same-unit", "textual", "attribution" >>

unit_relation(i) ==
    IF i <= Len(RelationNames) THEN RelationNames[i] ELSE "elaboration"

Labellings == { "scenario", "relations" }

labels_of(n, labelling) ==
    [ i \in 1..n |-> IF labelling = "scenario" THEN unit_label(i) ELSE unit_relation(i) ]

unit_nuc(i) == IF i % 2 = 0 THEN NUC_N ELSE NUC_S

\* every head array over n units in which no unit is its own head
HeadArrays(n) == { h \in [ 1..n -> 0..n ] : \A i \in 1..n : h[i] # i }

mk_dtree(n, heads, layout, labelling) ==
    [ heads        |-> heads,
      labels       |-> labels_of(n, labelling),
      nucs         |-> [ i \in 1..n |-> unit_nuc(i) ],
      ranks        |-> [ i \in 0..n |-> 0 ],
      edus         |-> [ i \in 0..n |-> IF i = 0 THEN left_padding
                                         ELSE [ num |-> i - 1, span |-> unit_span(layout, i) ] ],
      idx          |-> [ i \in 0..n |-> i ],
      has_sent_idx |-> FALSE,
      sent_idx     |-> [ i \in 0..n |-> 0 ] ]

\* the sentence ids a caller can attach to the units of a tree: any id for
\* any unit, whether or not the units of a sentence follow one another
SentenceIds(n) == [ 1..n -> 0..(MaxSent - 1) ]

\* dtree.sent_idx: the ids of the units, the left padding in sentence 0
sentences(n, ids) == [ i \in 0..n |-> IF i = 0 THEN 0 ELSE ids[i] ]

\* ranks given by whoever built the tree: in index order or against it
given_ranks(n, order) ==
    [ i \in 0..n |-> IF i = 0 THEN 0 ELSE IF order = "ascending" THEN i ELSE n + 1 - i ]

(***************************************************************************)
(* DummyNuclearityClassifier.  A classifier is the strategy it was made    *)
(* with and, once fit has succeeded, the attribute multinuc_lbls; fitted   *)
(* is FALSE while the object has no such attribute.                        *)
(***************************************************************************)
ClfStrategies == << "unamb_else_most_frequent", "most_frequent_by_rel" >>

UnambiguousMultinuc == << "joint", "same-unit", "textual" >>

\* DummyNuclearityClassifier.__init__ that would refuse an unknown name
clf_init_eager(strategy) ==
    IF Contains(ClfStrategies, strategy)
    THEN [ err |-> "", strategy |-> strategy, fitted |-> FALSE, multinuc_lbls |-> << >> ]
    ELSE [ err |-> "ValueError", strategy |-> "", fitted |-> FALSE, multinuc_lbls |-> << >> ]

\* DummyNuclearityClassifier.__init__: the name is stored as it comes
clf_init(strategy) ==
    [ err |-> "", strategy |-> strategy, fitted |-> FALSE, multinuc_lbls |-> << >> ]

\* the relations of a frequency table, given as its items, whose most
\* frequent nuclearity pattern is 'NN'
most_frequent_nn(items) ==
    LET nn == SelectSeq(items, LAMBDA it : it[2] = "NN")
    IN  [ i \in 1..Len(nn) |-> nn[i][1] ]

\* fit that lets any strategy name through
clf_fit_unchecked(self, items) ==
    IF self.strategy = "most_frequent_by_rel"
    THEN [ self EXCEPT !.err = "", !.fitted = TRUE,
                       !.multinuc_lbls = most_frequent_nn(items) ]
    ELSE [ self EXCEPT !.err = "", !.fitted = TRUE,
                       !.multinuc_lbls = UnambiguousMultinuc ]

\* DummyNuclearityClassifier.fit: the classifier after the call, err the
\* exception the call raised
clf_fit(self, items) ==
    IF ~Contains(ClfStrategies, self.strategy)
    THEN [ self EXCEPT !.err = "ValueError" ]
    ELSE IF self.strategy = "unamb_else_most_frequent"
    THEN [ self EXCEPT !.err = "", !.fitted = TRUE,
                       !.multinuc_lbls = UnambiguousMultinuc ]
    ELSE [ self EXCEPT !.err = "", !.fitted = TRUE,
                       !.multinuc_lbls = most_frequent_nn(items) ]

\* predict that calls multinuclear every relation outside the set
clf_predict_inverted(self, dt) ==
    IF ~self.fitted THEN Raise("AttributeError")
    ELSE Ok([ i \in 1..NumUnits(dt) |->
                IF Contains(self.multinuc_lbls, dt.labels[i]) THEN NUC_S ELSE NUC_N ])

\* variant of clf_predict: a unit that has a rank is a nucleus
clf_predict_reads_ranks(self, dt) ==
    IF ~self.fitted THEN Raise("AttributeError")
    ELSE Ok([ i \in 1..NumUnits(dt) |->
                IF Contains(self.multinuc_lbls, dt.labels[i]) \/ dt.ranks[i] > 0
                THEN NUC_N ELSE NUC_S ])

\* DummyNuclearityClassifier.predict([dtree])
clf_predict(self, dt) ==
    IF ~self.fitted THEN Raise("AttributeError")
    ELSE Ok([ i \in 1..NumUnits(dt) |->
                IF Contains(self.multinuc_lbls, dt.labels[i]) THEN NUC_N ELSE NUC_S ])

\* DummyNuclearityClassifier.predict(X) on a list of trees: [err, y]
RECURSIVE clf_predict_batch(_, _)
clf_predict_batch(self, X) ==
    IF X = << >> THEN [ err |-> "", y |-> << >> ]
    ELSE LET yi == clf_predict(self, Head(X))
         IN  IF yi.err # "" THEN [ err |-> yi.err, y |-> << >> ]
             ELSE LET rest == clf_predict_batch(self, Tail(X))
                  IN  IF rest.err # "" THEN rest
                      ELSE [ err |-> "", y |-> << yi.seq >> \o rest.y ]

\* get_most_frequent_unuc(load_training_as_dataframe()).items() on two
\* training sets
FrequencyTables ==
    { << << "joint", "NN" >>, << "elaboration", "NS" >>, << "same-unit", "NN" >>,
         << "textual", "NN" >>, << "attribution", "SN" >>, << "R1", "NN" >> >>,
      << << "elaboration", "NN" >>, << "joint", "NS" >>, << "L", "NN" >>,
         << "textual", "SN" >> >> }

(***************************************************************************)
(* The right frontier constraint (educe.stac.rfc.BasicRfc).  A graph has   *)
(* its discourse units, named 1, 2, ... in the order of first_widest_dus,  *)
(* and its links: relation instances from a source to a target, which are  *)
(* subordinating or not, and CDUs, each with the unit that mirrors it and  *)
(* its members.  A CDU starts where its first member starts and is at      *)
(* least as wide, so it comes before its members.                          *)
(***************************************************************************)

\* points[node] = None
NoPoint == 0

\* a relation instance: graph.links(lnk) = [src, tgt]
rel_link(src, tgt, sub) ==
    [ kind |-> "rel", nodes |-> << src, tgt >>, sub |-> sub, mirror |-> NoPoint ]

\* a CDU: graph.links(lnk) are its members, graph.mirror(lnk) its unit
cdu_link(cdu, members) ==
    [ kind |-> "cdu", nodes |-> members, sub |-> FALSE, mirror |-> cdu ]

\* graph.first_widest_dus()
first_widest_dus(graph) == graph.nodes

\* graph.links(node): the links a unit belongs to, in the order the graph
\* gives them
links(graph, node) ==
    SelectSeq(graph.links, LAMBDA lnk : Contains(lnk.nodes, node))

is_relation(lnk) == lnk.kind = "rel"

is_cdu(lnk) == lnk.kind = "cdu"

\* is_subordinating(graph.annotation(lnk))
is_subordinating(lnk) == lnk.sub

\* BasicRfc._is_incoming_to(node, lnk)
is_incoming_to(node, lnk) ==
    is_relation(lnk) /\ Len(lnk.nodes) = 2 /\ lnk.nodes[2] = node

\* position(name) inside frontier()
position(nodes, name) ==
    IF Contains(nodes, name) THEN IndexOf(nodes, name) - 1 ELSE 0 - 1

\* the link makes a candidate of node1: it is a subordinating relation
\* instance into node1, or else a CDU
gives_candidate(node1, lnk) ==
    (is_incoming_to(node1, lnk) /\ is_subordinating(lnk)) \/ is_cdu(lnk)

\* the candidates (node2, position(node2)) of node1, in the order of
\* graph.links(node1)
candidates(graph, node1) ==
    LET nodes == first_widest_dus(graph)
        lnks  == SelectSeq(links(graph, node1),
                           LAMBDA lnk : gives_candidate(node1, lnk))
    IN  [ i \in 1..Len(lnks) |->
            IF is_incoming_to(node1, lnks[i]) /\ is_subordinating(lnks[i])
            THEN << lnks[i].nodes[1], position(nodes, lnks[i].nodes[1]) >>
            ELSE << lnks[i].mirror, position(nodes, lnks[i].mirror) >> ]

\* max(candidates, key=lambda x: x[1]): the first candidate of the largest
\* position
best_of(cands) ==
    cands[CHOOSE i \in 1..Len(cands) :
              /\ \A j \in 1..Len(cands) : cands[j][2] <= cands[i][2]
              /\ \A j \in 1..(i - 1) : cands[j][2] < cands[i][2]]

\* BasicRfc.frontier(): the dictionary points
frontier(graph) ==
    LET nodes == first_widest_dus(graph)
    IN  [ node1 \in { nodes[i] : i \in 1..Len(nodes) } |->
            IF candidates(graph, node1) # << >>
            THEN best_of(candidates(graph, node1))[1]
            ELSE NoPoint ]

\* the first k nodes that _build_right_frontier(points, last) yields
RECURSIVE yields_upto(_, _, _)
yields_upto(points, current, k) ==
    IF k = 0 \/ current \notin DOMAIN points THEN << >>
    ELSE << current >> \o yields_upto(points, points[current], k - 1)

\* the walk comes to its end: within as many steps as points has nodes it
\* leaves points; otherwise it is on a cycle and yields for ever
RECURSIVE walk_ends(_, _, _)
walk_ends(points, current, k) ==
    \/ current \notin DOMAIN points
    \/ k > 0 /\ walk_ends(points, points[current], k - 1)

\* BasicRfc._is_on_right_frontier(points, last, node): any() returns True
\* at the first node equal to node and False when the walk has ended;
\* on a cycle that node is not on it never returns
is_on_right_frontier(points, last, node) ==
    LET n == Cardinality(DOMAIN points)
    IN  IF Contains(yields_upto(points, last, n), node)
        THEN [ returns |-> TRUE, value |-> TRUE ]
        ELSE IF walk_ends(points, last, n)
        THEN [ returns |-> TRUE, value |-> FALSE ]
        ELSE [ returns |-> FALSE, value |-> FALSE ]

\* the checks of violations(), in the order they are made: (last, node1,
\* lnk) for each unit node1 after the first, last the unit before it, and
\* each link incoming to node1
RECURSIVE violation_checks(_, _)
violation_checks(graph, i) ==
    LET nodes == first_widest_dus(graph)
    IN  IF i >= Len(nodes) THEN << >>
        ELSE LET lnks == SelectSeq(links(graph, nodes[i + 1]),
                                   LAMBDA lnk : is_incoming_to(nodes[i + 1], lnk))
             IN  [ k \in 1..Len(lnks) |-> << nodes[i], nodes[i + 1], lnks[k] >> ]
                 \o violation_checks(graph, i + 1)

\* BasicRfc.violations(): res maps node2 to the list of the links from it
\* that violate the constraint; the call does not return when one of its
\* checks does not
violations(graph) ==
    LET nodes  == first_widest_dus(graph)
        points == frontier(graph)
        checks == violation_checks(graph, 1)
        off    == SelectSeq(checks, LAMBDA c :
                      ~is_on_right_frontier(points, c[1], c[3].nodes[1]).value)
    IN  IF Len(nodes) < 2 THEN [ returns |-> TRUE, res |-> << >> ]
        ELSE IF \E k \in 1..Len(checks) :
                   ~is_on_right_frontier(points, checks[k][1],
                                         checks[k][3].nodes[1]).returns
        THEN [ returns |-> FALSE, res |-> << >> ]
        ELSE [ returns |-> TRUE,
               res |-> [ node2 \in { off[k][3].nodes[1] : k \in 1..Len(off) } |->
                           LET mine == SelectSeq(off, LAMBDA c : c[3].nodes[1] = node2)
                           IN  [ k \in 1..Len(mine) |-> mine[k][3] ] ] ]

(***************************************************************************)
(* The state machine: a tree is given, a ranker is made, it ranks the      *)
(* tree, the ranks are attached to the tree and the tree is converted; or  *)
(* a nuclearity classifier is made, fitted and asked for the nuclearities  *)
(* of the tree.                                                            *)
(***************************************************************************)
VARIABLES
    dtree,      \* the RstDepTree
    ranker,     \* InsideOutAttachmentRanker.strategy, "" before construction
    dt_ranks,   \* what predict returned for the tree: [err, ranks]
    rst,        \* what deptree_to_simple_rst_tree returned: [err, tree, roots]
    clf,        \* the DummyNuclearityClassifier
    dt_nucs,    \* what the classifier's predict returned: [err, seq]
    exc,        \* the exception a constructor or fit raised last: [type, arg],
                \* arg the strategy its message names
    conn,       \* one call of connect_trees: [src, tgt, rel, nuc, res]
    batch,     \* one call of predict on several trees: [X, at, res, y]
    calls,     \* the calls the conversion made: [walks, connects, depth]
    rfc,       \* a BasicRfc at work: [graph, points, last, current, yields, res]
    pc          \* "input", "ranker", "ctor_error", "ranked", "attached",
                \* "converted", "clf", "clf_ctor_error", "clf_predicted",
                \* "connect", "connected", "passes", "nuc_done", "rank_done",
                \* "nuc_rank_done", "rank_nuc_done", "batch", "alone_done",
                \* "batch_done", "rfc", "frontier", "walking", "walk_done",
                \* "violations_done", "violations_running"

vars ==
    << dtree, ranker, dt_ranks, rst, clf, dt_nucs, exc, conn,
       batch, calls, rfc, pc >>

NoRanks == [ err |-> "none", ranks |-> << >> ]

NoRst == [ err |-> "none", tree |-> None, roots |-> << >> ]

NoClf == [ err |-> "none", strategy |-> "", fitted |-> FALSE, multinuc_lbls |-> << >> ]

NoNucs == [ err |-> "none", seq |-> << >> ]

NoExc == [ type |-> "", arg |-> "" ]

NoConn == [ src |-> None, tgt |-> None, rel |-> "", nuc |-> "", res |-> RaiseParts("none") ]

NoRfc == [ graph |-> [ nodes |-> << >>, links |-> << >> ], points |-> << >>,
           last |-> NoPoint, current |-> NoPoint, yields |-> << >>,
           path |-> << >>, res |-> [ returns |-> FALSE, res |-> << >> ] ]

NoCalls == [ walks |-> 0, connects |-> 0, depth |-> 0 ]

NoBatch == [ X |-> << >>, at |-> 0, res |-> [ err |-> "none", dt_ranks |-> << >> ],
             y |-> [ err |-> "none", y |-> << >> ] ]

Init ==
    /\ \E n \in 0..MaxN : \E heads \in HeadArrays(n) : \E layout \in SpanLayouts :
       \E labelling \in Labellings :
           dtree = mk_dtree(n, heads, layout, labelling)
    /\ ranker = ""
    /\ dt_ranks = NoRanks
    /\ rst = NoRst
    /\ clf = NoClf
    /\ dt_nucs = NoNucs
    /\ exc = NoExc
    /\ conn = NoConn
    /\ rfc = NoRfc
    /\ calls = NoCalls
    /\ batch = NoBatch
    /\ pc = "input"

\* InsideOutAttachmentRanker.__init__ that would let any name through
ranker_init_unchecked(strategy) == [ err |-> "", strategy |-> strategy ]

\* InsideOutAttachmentRanker.__init__
ranker_init(strategy) ==
    IF ~Contains(Strategies, strategy)
    THEN [ err |-> "ValueError", strategy |-> "" ]
    ELSE [ err |-> "", strategy |-> strategy ]

RankerInit(strategy) ==
    /\ pc = "input"
    /\ LET made == ranker_init(strategy)
       IN  IF made.err = ""
           THEN ranker' = made.strategy /\ pc' = "ranker" /\ exc' = exc
           ELSE /\ ranker' = ""
                /\ pc' = "ctor_error"
                /\ exc' = [ type |-> made.err, arg |-> strategy ]
    /\ UNCHANGED << dtree, dt_ranks, rst, clf, dt_nucs, conn, batch, calls, rfc >>

\* the caller attaches the sentence of every unit to the tree, for the
\* strategies that read it
AttachSentIdx(ids) ==
    /\ pc = "ranker"
    /\ ranker \in IntraStrategies
    /\ ~dtree.has_sent_idx
    /\ dtree' = [ dtree EXCEPT !.has_sent_idx = TRUE,
                               !.sent_idx = sentences(NumUnits(dtree), ids) ]
    /\ UNCHANGED << ranker, dt_ranks, rst, clf, dt_nucs, exc, conn, pc, batch, calls, rfc >>

\* variant of RankerPredict: predict sets the ranks on the tree itself
RankerPredictInPlace ==
    /\ pc = "ranker"
    /\ dt_ranks' = predict_ranks(ranker, dtree)
    /\ dtree' = IF dt_ranks'.err = "" THEN [ dtree EXCEPT !.ranks = dt_ranks'.ranks ]
                ELSE dtree
    /\ pc' = "ranked"
    /\ UNCHANGED << ranker, rst, clf, dt_nucs, exc, conn, batch, calls, rfc >>

\* InsideOutAttachmentRanker.predict([dtree])
RankerPredict ==
    /\ pc = "ranker"
    /\ dt_ranks' = predict_ranks(ranker, dtree)
    /\ pc' = "ranked"
    /\ UNCHANGED << dtree, ranker, rst, clf, dt_nucs, exc, conn, batch, calls, rfc >>

\* the caller sets dtree.ranks to the predicted ranks
SetRanks ==
    /\ pc = "ranked"
    /\ dt_ranks.err = ""
    /\ dtree' = [ dtree EXCEPT !.ranks = dt_ranks.ranks ]
    /\ pc' = "attached"
    /\ UNCHANGED << ranker, dt_ranks, rst, clf, dt_nucs, exc, conn, batch, calls, rfc >>

\* the tree comes with ranks of its own
GivenRanks(order) ==
    /\ pc = "input"
    /\ dtree' = [ dtree EXCEPT !.ranks = given_ranks(NumUnits(dtree), order) ]
    /\ pc' = "attached"
    /\ UNCHANGED << ranker, dt_ranks, rst, clf, dt_nucs, exc, conn, batch, calls, rfc >>

\* deptree_to_simple_rst_tree(dtree)
Convert ==
    /\ pc = "attached"
    /\ rst' = deptree_to_simple_rst_tree(dtree)
    /\ calls' = conversion_calls(dtree)
    /\ pc' = "converted"
    /\ UNCHANGED << dtree, ranker, dt_ranks, clf, dt_nucs, exc, conn, batch, rfc >>

\* DummyNuclearityClassifier(strategy)
ClfInit(strategy) ==
    /\ pc = "input"
    /\ LET made == clf_init(strategy)
       IN  IF made.err = ""
           THEN clf' = made /\ pc' = "clf" /\ exc' = exc
           ELSE /\ clf' = clf
                /\ pc' = "clf_ctor_error"
                /\ exc' = [ type |-> made.err, arg |-> strategy ]
    /\ UNCHANGED << dtree, ranker, dt_ranks, rst, dt_nucs, conn, batch, calls, rfc >>

\* DummyNuclearityClassifier.fit(X, y), any number of times; the training
\* statistics are those of one of the training sets
ClfFit(items) ==
    /\ pc = "clf"
    /\ clf' = clf_fit(clf, items)
    /\ exc' = IF clf'.err = "" THEN exc
              ELSE [ type |-> clf'.err, arg |-> "" ]
    /\ UNCHANGED << dtree, ranker, dt_ranks, rst, dt_nucs, conn, pc, batch, calls, rfc >>

\* DummyNuclearityClassifier.predict([dtree]), whatever was called before
ClfPredict ==
    /\ pc = "clf"
    /\ dt_nucs' = clf_predict(clf, dtree)
    /\ pc' = "clf_predicted"
    /\ UNCHANGED << dtree, ranker, dt_ranks, rst, clf, exc, conn, batch, calls, rfc >>

Next ==
    \/ \E strategy \in StrategySet \cup { "bogus" } : RankerInit(strategy)
    \/ \E ids \in SentenceIds(NumUnits(dtree)) : AttachSentIdx(ids)
    \/ RankerPredict
    \/ SetRanks
    \/ \E order \in { "ascending", "descending" } : GivenRanks(order)
    \/ Convert
    \/ \E strategy \in { ClfStrategies[i] : i \in 1..Len(ClfStrategies) } \cup { "bogus" } :
           ClfInit(strategy)
    \/ \E items \in FrequencyTables : ClfFit(items)
    \/ ClfPredict

Spec == Init /\ [][Next]_vars

(***************************************************************************)
(* connect_trees on its own: it is called once, on two partial trees made  *)
(* of the units of a text, each a leaf or two leaves connected.            *)
(***************************************************************************)
\* the partial trees that are one unit of the tree
LeafParts(dt) == { mk_leaf(dt.edus[i]) : i \in 1..NumUnits(dt) }

\* the partial trees that are two units of the tree connected
PairParts(dt) ==
    LET made == { connect_trees(a, b, dt.labels[b.edu.num + 1], dt.nucs[b.edu.num + 1]) :
                      a \in LeafParts(dt), b \in LeafParts(dt) }
    IN  { m.parts : m \in { r \in made : r.err = "" } }

InitConnect ==
    /\ \E layout \in SpanLayouts :
           dtree = mk_dtree(MaxN, [ i \in 1..MaxN |-> IF i = 1 THEN 0 ELSE 1 ],
                            layout, "relations")
    /\ ranker = ""
    /\ dt_ranks = NoRanks
    /\ rst = NoRst
    /\ clf = NoClf
    /\ dt_nucs = NoNucs
    /\ exc = NoExc
    /\ conn = NoConn
    /\ rfc = NoRfc
    /\ calls = NoCalls
    /\ batch = NoBatch
    /\ pc = "connect"

\* connect_trees(src, tgt, rel, nuc)
ConnectTrees(src, tgt, rel, nuc) ==
    /\ pc = "connect"
    /\ conn' = [ src |-> src, tgt |-> tgt, rel |-> rel, nuc |-> nuc,
                 res |-> connect_trees(src, tgt, rel, nuc) ]
    /\ pc' = "connected"
    /\ UNCHANGED << dtree, ranker, dt_ranks, rst, clf, dt_nucs, exc, batch, calls, rfc >>

NextConnect ==
    \E src \in LeafParts(dtree) \cup PairParts(dtree) :
    \E tgt \in LeafParts(dtree) \cup PairParts(dtree) :
    \E rel \in { "joint", "elaboration" } : \E nuc \in { NUC_N, NUC_S } :
        ConnectTrees(src, tgt, rel, nuc)

SpecConnect == InitConnect /\ [][NextConnect]_vars

(***************************************************************************)
(* The two passes over a tree, in either order: a fitted classifier and a  *)
(* ranker are given; each pass calls predict on the tree as it is and sets *)
(* what predict returned on the tree.                                      *)
(***************************************************************************)
InitPasses ==
    /\ \E n \in 0..MaxN : \E heads \in HeadArrays(n) :
       \E ids \in SentenceIds(n) :
           dtree = [ mk_dtree(n, heads, "apart", "relations") EXCEPT
                       !.has_sent_idx = TRUE,
                       !.sent_idx = sentences(n, ids) ]
    /\ ranker \in StrategySet
    /\ dt_ranks = NoRanks
    /\ rst = NoRst
    /\ \E strategy \in { ClfStrategies[i] : i \in 1..Len(ClfStrategies) } :
       \E items \in FrequencyTables :
           clf = clf_fit(clf_init(strategy), items)
    /\ dt_nucs = NoNucs
    /\ exc = NoExc
    /\ conn = NoConn
    /\ rfc = NoRfc
    /\ calls = NoCalls
    /\ batch = NoBatch
    /\ pc = "passes"

\* dtree.nucs = classifier.predict([dtree])[0]
NucPass ==
    /\ pc \in { "passes", "rank_done" }
    /\ dt_nucs' = clf_predict(clf, dtree)
    /\ dtree' = IF dt_nucs'.err = "" THEN [ dtree EXCEPT !.nucs = dt_nucs'.seq ]
                ELSE dtree
    /\ pc' = IF pc = "passes" THEN "nuc_done" ELSE "rank_nuc_done"
    /\ UNCHANGED << ranker, dt_ranks, rst, clf, exc, conn, batch, calls, rfc >>

\* dtree.ranks = ranker.predict([dtree])[0]
RankPass ==
    /\ pc \in { "passes", "nuc_done" }
    /\ dt_ranks' = predict_ranks(ranker, dtree)
    /\ dtree' = IF dt_ranks'.err = "" THEN [ dtree EXCEPT !.ranks = dt_ranks'.ranks ]
                ELSE dtree
    /\ pc' = IF pc = "passes" THEN "rank_done" ELSE "nuc_rank_done"
    /\ UNCHANGED << ranker, rst, clf, dt_nucs, exc, conn, batch, calls, rfc >>

NextPasses ==
    \/ NucPass
    \/ RankPass

SpecPasses == InitPasses /\ [][NextPasses]_vars

(***************************************************************************)
(* predict on a batch: a tree is predicted alone, then in a batch with     *)
(* another tree before or after it, or with its heads iterated in another  *)
(* order.                                                                  *)
(***************************************************************************)
\* a tree of n units, with the sentences ids or without any
batch_tree(n, heads, sent, ids) ==
    IF sent
    THEN [ mk_dtree(n, heads, "apart", "relations") EXCEPT
             !.has_sent_idx = TRUE, !.sent_idx = sentences(n, ids) ]
    ELSE mk_dtree(n, heads, "apart", "relations")

OtherTrees ==
    UNION { { batch_tree(n, a[1], a[2], a[3]) :
                  a \in HeadArrays(n) \X BOOLEAN \X SentenceIds(n) } :
              n \in 0..MaxOtherN }

\* the orders in which a set can be iterated
Orders(S) ==
    { p \in [ 1..Cardinality(S) -> S ] :
        \A i, j \in 1..Cardinality(S) : i # j => p[i] # p[j] }

InitBatch ==
    /\ \E n \in 0..MaxBatchN : \E heads \in HeadArrays(n) : \E sent \in BOOLEAN :
       \E ids \in SentenceIds(n) :
           dtree = batch_tree(n, heads, sent, ids)
    /\ ranker \in StrategySet
    /\ dt_ranks = NoRanks
    /\ rst = NoRst
    /\ \E strategy \in { ClfStrategies[i] : i \in 1..Len(ClfStrategies) } :
       \E items \in FrequencyTables :
           clf = clf_fit(clf_init(strategy), items)
    /\ dt_nucs = NoNucs
    /\ exc = NoExc
    /\ conn = NoConn
    /\ rfc = NoRfc
    /\ calls = NoCalls
    /\ batch = NoBatch
    /\ pc = "batch"

\* ranker.predict([dtree]) and classifier.predict([dtree])
PredictAlone ==
    /\ pc = "batch"
    /\ dt_ranks' = predict_ranks(ranker, dtree)
    /\ dt_nucs' = clf_predict(clf, dtree)
    /\ pc' = "alone_done"
    /\ UNCHANGED << dtree, ranker, rst, clf, exc, conn, batch, calls, rfc >>

\* ranker.predict(X) and classifier.predict(X), X the tree and another
PredictBatch(other, first) ==
    /\ pc = "alone_done"
    /\ LET X == IF first THEN << dtree, other >> ELSE << other, dtree >>
       IN  batch' = [ X   |-> X,
                      at  |-> IF first THEN 1 ELSE 2,
                      res |-> predict_batch(ranker, X,
                                  [ k \in 1..2 |-> heads_iterated(X[k]) ]),
                      y   |-> clf_predict_batch(clf, X) ]
    /\ pc' = "batch_done"
    /\ UNCHANGED << dtree, ranker, dt_ranks, rst, clf, dt_nucs, exc, conn, calls, rfc >>

\* ranker.predict([dtree]) with the set of heads iterated in the order hs
PredictHeadsInOrder(hs) ==
    /\ pc = "alone_done"
    /\ batch' = [ X   |-> << dtree >>,
                  at  |-> 1,
                  res |-> predict_batch(ranker, << dtree >>, << hs >>),
                  y   |-> clf_predict_batch(clf, << dtree >>) ]
    /\ pc' = "batch_done"
    /\ UNCHANGED << dtree, ranker, dt_ranks, rst, clf, dt_nucs, exc, conn, calls, rfc >>

NextBatch ==
    \/ PredictAlone
    \/ \E other \in OtherTrees : \E first \in BOOLEAN : PredictBatch(other, first)
    \/ \E hs \in Orders(unique_heads(dtree)) : PredictHeadsInOrder(hs)

SpecBatch == InitBatch /\ [][NextBatch]_vars

(***************************************************************************)
(* The right frontier: a BasicRfc is made on a graph; frontier() is        *)
(* called and a walk up the frontier is started on one of the units and    *)
(* consumed node after node; or violations() is called.                    *)
(***************************************************************************)

\* the relation instances there can be into n units: from another of the
\* units, or from a unit that first_widest_dus does not list (n + 1)
RelCandidates(n) ==
    { rel_link(e[1], e[2], sub) :
        e \in { x \in (1..(n + 1)) \X (1..n) : x[1] # x[2] }, sub \in BOOLEAN }

\* no CDU, or one: a unit and its members, which come after it, or a CDU
\* that first_widest_dus does not list (n + 2) and its members
CduChoices(n) ==
    { { } } \cup
    UNION { { { cdu_link(cdu, Ascending(members)) } :
                members \in (SUBSET ((cdu + 1)..n)) \ { { } } } :
            cdu \in 1..n } \cup
    { { cdu_link(n + 2, Ascending(members)) } :
        members \in (SUBSET (1..n)) \ { { } } }

\* the links of a set, one after the other
RECURSIVE LinksInOrder(_)
LinksInOrder(S) ==
    IF S = { } THEN << >>
    ELSE LET lnk == CHOOSE l \in S : TRUE
         IN  << lnk >> \o LinksInOrder(S \ { lnk })

\* BasicRfc(graph)
InitRfc ==
    /\ dtree = mk_dtree(1, << 0 >>, "apart", "relations")
    /\ ranker = ""
    /\ dt_ranks = NoRanks
    /\ rst = NoRst
    /\ clf = NoClf
    /\ dt_nucs = NoNucs
    /\ exc = NoExc
    /\ conn = NoConn
    /\ calls = NoCalls
    /\ batch = NoBatch
    /\ \E n \in 0..MaxRfcN :
       \E rels \in { r \in SUBSET RelCandidates(n) : Cardinality(r) <= MaxRels } :
       \E cdus \in CduChoices(n) :
       \E backwards \in BOOLEAN :
           rfc = [ NoRfc EXCEPT !.graph =
                     [ nodes |-> [ i \in 1..n |-> i ],
                       links |-> IF backwards
                                 THEN Reversed(LinksInOrder(rels \cup cdus))
                                 ELSE LinksInOrder(rels \cup cdus) ] ]
    /\ pc = "rfc"

\* points = self.frontier()
RfcFrontier ==
    /\ pc = "rfc"
    /\ rfc' = [ rfc EXCEPT !.points = frontier(rfc.graph) ]
    /\ pc' = "frontier"
    /\ UNCHANGED << dtree, ranker, dt_ranks, rst, clf, dt_nucs, exc, conn, batch, calls >>

\* self._build_right_frontier(points, last): current = last
WalkStart(last) ==
    /\ pc = "frontier"
    /\ rfc' = [ rfc EXCEPT !.last = last, !.current = last,
                           !.yields = [ node \in DOMAIN rfc.points |-> 0 ],
                           !.path = << >> ]
    /\ pc' = "walking"
    /\ UNCHANGED << dtree, ranker, dt_ranks, rst, clf, dt_nucs, exc, conn, batch, calls >>

\* one turn of the loop: current is in points, it is yielded and the walk
\* moves to points[current]
WalkStep ==
    /\ pc = "walking"
    /\ rfc.current \in DOMAIN rfc.points
    /\ rfc' = [ rfc EXCEPT !.yields[rfc.current] = Min2(@ + 1, MaxYields),
                           !.path = IF rfc.yields[rfc.current] = 0
                                    THEN Append(@, rfc.current) ELSE @,
                           !.current = rfc.points[rfc.current] ]
    /\ UNCHANGED << dtree, ranker, dt_ranks, rst, clf, dt_nucs, exc, conn, batch, calls, pc >>

\* current is not in points: the generator is exhausted
WalkEnd ==
    /\ pc = "walking"
    /\ rfc.current \notin DOMAIN rfc.points
    /\ pc' = "walk_done"
    /\ UNCHANGED << dtree, ranker, dt_ranks, rst, clf, dt_nucs, exc, conn, batch, calls, rfc >>

\* BasicRfc.violations(); a call that does not return stays where it is
Violations ==
    /\ pc = "rfc"
    /\ rfc' = [ rfc EXCEPT !.points = IF Len(first_widest_dus(rfc.graph)) < 2
                                      THEN << >> ELSE frontier(rfc.graph),
                           !.res = violations(rfc.graph) ]
    /\ pc' = IF rfc'.res.returns THEN "violations_done" ELSE "violations_running"
    /\ UNCHANGED << dtree, ranker, dt_ranks, rst, clf, dt_nucs, exc, conn, batch, calls >>

NextRfc ==
    \/ RfcFrontier
    \/ \E last \in DOMAIN rfc.points : WalkStart(last)
    \/ WalkStep
    \/ WalkEnd
    \/ Violations

SpecRfc == InitRfc /\ [][NextRfc]_vars

\* the consumer of the generator keeps asking for the next node
FairSpecRfc == SpecRfc /\ WF_vars(WalkStep) /\ WF_vars(WalkEnd)

(***************************************************************************)
(* Vocabulary of the properties.                                           *)
(***************************************************************************)
Units == 1..NumUnits(dtree)

ChildrenOf(h) == { c \in Units : dtree.heads[c] = h }

Start(i) == dtree.edus[i].span.char_start

\* c lies before h in the text; the left padding lies before every unit
LeftOf(c, h) == h # 0 /\ Start(c) < Start(h)

SameSide(a, b, h) == LeftOf(a, h) <=> LeftOf(b, h)

TextDist(c, h) == Abs(Start(c) - Start(h))

Ranked == pc = "ranked" /\ dt_ranks.err = ""

Rank(c) == dt_ranks.ranks[c]

\* the strategy can run on the tree: the sentences are there if it reads them
SentencesGiven == ranker \in IntraStrategies => dtree.has_sent_idx

RootsFound == { i \in Units : dtree.heads[i] = 0 }

RECURSIVE ReachesRoot(_, _)
ReachesRoot(i, fuel) ==
    IF i = 0 THEN TRUE
    ELSE IF fuel = 0 THEN FALSE
    ELSE ReachesRoot(dtree.heads[i], fuel - 1)

Acyclic == \A i \in Units : ReachesRoot(i, NumUnits(dtree))

UnitsApart ==
    \A i, j \in Units : i # j =>
        \/ dtree.edus[i].span.char_end <= dtree.edus[j].span.char_start
        \/ dtree.edus[j].span.char_end <= dtree.edus[i].span.char_start

WellFormed == Cardinality(RootsFound) = 1 /\ Acyclic /\ UnitsApart

Converted == pc = "converted" /\ rst.err = ""

IsLeaf(t) == Len(t.kids) = 1

RECURSIVE Leaves(_)
Leaves(t) ==
    IF IsLeaf(t) THEN << t.kids[1] >>
    ELSE Leaves(t.kids[1]) \o Leaves(t.kids[2])

\* every internal node of t satisfies P
RECURSIVE SpansMerge(_)
SpansMerge(t) ==
    \/ IsLeaf(t)
    \/ /\ Len(t.kids) = 2
       /\ LET l == t.kids[1].node.span
              r == t.kids[2].node.span
          IN  /\ t.node.span.char_start = Min2(l.char_start, r.char_start)
              /\ t.node.span.char_end = Max2(l.char_end, r.char_end)
              /\ (l.char_end <= r.char_start \/ r.char_end <= l.char_start)
       /\ SpansMerge(t.kids[1])
       /\ SpansMerge(t.kids[2])

(***************************************************************************)
(* Properties.                                                             *)
(***************************************************************************)

\* C1: whatever the tree and the strategy (the sentences being there for a
\* strategy that reads them), predict returns a rank array with one entry
\* per node in which the ranks of the children of every head are exactly
\* 0..k-1, k the number of children.
C1_RanksArePermutation ==
    (pc = "ranked" /\ SentencesGiven) =>
        /\ dt_ranks.err = ""
        /\ DOMAIN dt_ranks.ranks = 0..NumUnits(dtree)
        /\ \A h \in 0..NumUnits(dtree) :
               { Rank(c) : c \in ChildrenOf(h) } = 0..(Cardinality(ChildrenOf(h)) - 1)

\* C2: the leaves of a tree returned for a well-formed input (one real root,
\* no cycle, units that do not overlap), read from left to right, are the
\* units of the input in text order, each once.
C2_LeavesAreUnitsInTextOrder ==
    (Converted /\ WellFormed) =>
        Leaves(rst.tree) = [ i \in 1..NumUnits(dtree) |-> dtree.edus[i] ]

C2_Witness ==
    /\ Converted /\ WellFormed
    /\ NumUnits(dtree) >= 4
    /\ \E h \in Units : \E a, b \in ChildrenOf(h) : LeftOf(a, h) /\ ~LeftOf(b, h)
    /\ \E h \in Units : h \notin RootsFound /\ ChildrenOf(h) # {}

\* C3: in a returned tree the span of every internal node is the merge of
\* the spans of its two children, and these two do not overlap.
C3_SpanIsMergeOfChildren ==
    Converted => SpansMerge(rst.tree)

C3_Witness ==
    /\ Converted
    /\ NumUnits(dtree) >= 4
    /\ ~IsLeaf(rst.tree) /\ ~IsLeaf(rst.tree.kids[1]) /\ ~IsLeaf(rst.tree.kids[2])

\* C4: a tree is returned only when exactly one unit has head 0; with no
\* real root or with several, the conversion raises RstDtException naming
\* the roots it found and returns no tree.
C4_OneRealRootOrError ==
    pc = "converted" =>
        /\ rst.err = "" => Cardinality(RootsFound) = 1
        /\ Cardinality(RootsFound) # 1 =>
               /\ rst.err = "RstDtException"
               /\ rst.tree = None
               /\ { rst.roots[i] : i \in 1..Len(rst.roots) } = RootsFound
               /\ Len(rst.roots) = Cardinality(RootsFound)

C4_Witness ==
    pc = "converted" /\ Cardinality(RootsFound) >= 2 /\ NumUnits(dtree) >= 3
       /\ rst.err = "RstDtException" /\ Len(rst.roots) >= 2

\* C5: 'closest-lr' and 'closest-rl' rank the children of a head by
\* increasing distance from the head; of two children at the same distance
\* on either side of the head, 'closest-lr' ranks the left one first and
\* 'closest-rl' the right one.
C5_ClosestFirstThenSide ==
    (pc = "ranked" /\ ranker \in { "closest-lr", "closest-rl" }) =>
        /\ dt_ranks.err = ""
        /\ \A h \in 0..NumUnits(dtree) : \A a, b \in ChildrenOf(h) :
              /\ TextDist(a, h) < TextDist(b, h) => Rank(a) < Rank(b)
              /\ (TextDist(a, h) = TextDist(b, h) /\ LeftOf(a, h) /\ ~LeftOf(b, h)) =>
                     IF ranker = "closest-lr" THEN Rank(a) < Rank(b)
                     ELSE Rank(b) < Rank(a)

C5_Witness ==
    /\ Ranked /\ ranker = "closest-rl"
    /\ \E h \in Units : \E a, b, c \in ChildrenOf(h) :
          /\ TextDist(a, h) = TextDist(b, h) /\ LeftOf(a, h) /\ ~LeftOf(b, h)
          /\ TextDist(c, h) > TextDist(b, h)
          /\ Rank(b) < Rank(a) /\ Rank(a) < Rank(c)

\* the children of h as predict is given them: in index order
Given(h) == Ascending(ChildrenOf(h))

\* the children of h in the order of their ranks
RankOrder(h) ==
    [ i \in 1..Cardinality(ChildrenOf(h)) |->
        CHOOSE c \in ChildrenOf(h) : Rank(c) = i - 1 ]

\* of two children of h on the same side, the nearer one is ranked first
InsideOut(h) ==
    \A a, b \in ChildrenOf(h) :
        (SameSide(a, b, h) /\ TextDist(a, h) < TextDist(b, h)) => Rank(a) < Rank(b)

LeftChildren(h) == { c \in ChildrenOf(h) : LeftOf(c, h) }

RightChildren(h) == { c \in ChildrenOf(h) : ~LeftOf(c, h) }

\* C6: under 'id' the produced order of the children of every head has a
\* left child exactly where the given list has one, and fills each side
\* nearest to the head first.
C6_IdKeepsInterleaving ==
    (pc = "ranked" /\ ranker = "id") =>
        /\ dt_ranks.err = ""
        /\ \A h \in 0..NumUnits(dtree) :
              /\ { Rank(c) : c \in ChildrenOf(h) } = 0..(Cardinality(ChildrenOf(h)) - 1)
              /\ \A i \in 1..Cardinality(ChildrenOf(h)) :
                     LeftOf(RankOrder(h)[i], h) <=> LeftOf(Given(h)[i], h)
              /\ InsideOut(h)

\* the four units e0..e3 of the worked scenario: e1 the real root, e0 its
\* left dependent, e2 and e3 its right dependents
Scenario ==
    /\ dtree.heads = << 2, 0, 2, 2 >>
    /\ dtree.labels = << "L", "ROOT", "R1", "R2" >>
    /\ UnitsApart
    /\ ranker = "id"

LeafOf(t, i) == IsLeaf(t) /\ t.kids[1] = dtree.edus[i]

\* C7: in the worked scenario 'id' ranks the children as (e0, e2, e3) and
\* the conversion returns the tree ((e0 e1) e2) e3 whose top node has
\* edu-span (0,3), label R2 and nuclearity Root.
C7_WorkedScenario ==
    Scenario =>
        /\ pc = "ranked" =>
              dt_ranks.err = "" /\ Rank(1) = 0 /\ Rank(3) = 1 /\ Rank(4) = 2
        /\ pc = "converted" =>
              /\ rst.err = ""
              /\ rst.tree.node.edu_span = << 0, 3 >>
              /\ rst.tree.node.rel = "R2"
              /\ rst.tree.node.nuclearity = NUC_R
              /\ Len(rst.tree.kids) = 2
              /\ LeafOf(rst.tree.kids[2], 4)
              /\ Len(rst.tree.kids[1].kids) = 2
              /\ LeafOf(rst.tree.kids[1].kids[2], 3)
              /\ Len(rst.tree.kids[1].kids[1].kids) = 2
              /\ LeafOf(rst.tree.kids[1].kids[1].kids[1], 1)
              /\ LeafOf(rst.tree.kids[1].kids[1].kids[2], 2)

C7_Witness == Scenario /\ Converted /\ dtree.ranks[4] = 2

\* C8 as stated: whatever the strategy, the produced order is inside-out on
\* either side of every head: a child is never ranked before a child of the
\* same head that lies on the same side and nearer to the head.
C8_InsideOutOnEitherSide ==
    Ranked => \A h \in 0..NumUnits(dtree) : InsideOut(h)

\* b, in the sentence of the head h, is put by the first sort key of a
\* 'closest-intra-*' strategy before a, outside that sentence
\* (dep2con.py:241-280)
IntraBeforeInter(a, b, h) ==
    /\ ranker \in IntraStrategies
    /\ dtree.sent_idx[b] = dtree.sent_idx[h]
    /\ dtree.sent_idx[a] # dtree.sent_idx[h]

\* C8: in every produced order a child a of a head is ranked before every
\* child b of that head on the same side and farther from it, but for one
\* case: under a 'closest-intra-*' strategy a farther child in the sentence
\* of the head is ranked before a nearer child outside that sentence.
C8_InsideOutButForSentences ==
    Ranked =>
        \A h \in 0..NumUnits(dtree) : \A a, b \in ChildrenOf(h) :
            (SameSide(a, b, h) /\ TextDist(a, h) < TextDist(b, h)) =>
                IF IntraBeforeInter(a, b, h) THEN Rank(b) < Rank(a)
                ELSE Rank(a) < Rank(b)

\* a head between two sentences: under 'closest-intra-rl-inter-lr' its
\* farther right child, in its sentence, is ranked first, then its left
\* child and then its nearer right child, both outside the sentence
C8_Witness ==
    /\ Ranked /\ ranker = "closest-intra-rl-inter-lr"
    /\ \E h \in Units : \E a, b \in ChildrenOf(h) :
          /\ ~LeftOf(a, h) /\ ~LeftOf(b, h) /\ TextDist(a, h) < TextDist(b, h)
          /\ IntraBeforeInter(a, b, h)
          /\ Rank(b) < Rank(a)
          /\ \E c \in LeftChildren(h) : Rank(b) < Rank(c) /\ Rank(c) < Rank(a)

\* C9: 'lllrrr' ranks every left dependent of a head before every right
\* dependent, 'rrrlll' every right dependent before every left one; both
\* rank the dependents of a side nearest to the head first.
C9_OneSideThenTheOther ==
    (pc = "ranked" /\ ranker \in { "lllrrr", "rrrlll" }) =>
        /\ dt_ranks.err = ""
        /\ \A h \in 0..NumUnits(dtree) :
              /\ \A a \in LeftChildren(h) : \A b \in RightChildren(h) :
                     IF ranker = "lllrrr" THEN Rank(a) < Rank(b) ELSE Rank(b) < Rank(a)
              /\ InsideOut(h)

C9_Witness ==
    /\ Ranked /\ ranker = "rrrlll"
    /\ \E h \in Units : \E a \in LeftChildren(h) : \E b, c \in RightChildren(h) :
          Rank(b) < Rank(c) /\ Rank(c) < Rank(a)

\* how many children of h lie on the side of c and nearer to h than c
NearerOnSide(c, h) ==
    Cardinality({ a \in ChildrenOf(h) :
                    SameSide(a, c, h) /\ TextDist(a, h) < TextDist(c, h) })

\* the rank of c when the sides alternate, nearest first, the side
\* "first" starting, and the longer side goes on alone
AlternatingRank(c, h, first) ==
    LET p     == NearerOnSide(c, h)
        mine  == IF LeftOf(c, h) THEN "left" ELSE "right"
        other == IF LeftOf(c, h) THEN Cardinality(RightChildren(h))
                 ELSE Cardinality(LeftChildren(h))
    IN  IF mine = first THEN p + Min2(p, other) ELSE p + Min2(p + 1, other)

\* C10: 'lrlrlr' ranks the children of a head alternating between the
\* nearest left child not yet ranked and the nearest right one, left
\* first, and goes on with the side that is left once the other is
\* exhausted; every child is ranked once.  'rlrlrl' does so right first.
C10_AlternatingSides ==
    (pc = "ranked" /\ ranker \in { "lrlrlr", "rlrlrl" }) =>
        /\ dt_ranks.err = ""
        /\ \A h \in 0..NumUnits(dtree) : \A c \in ChildrenOf(h) :
              Rank(c) = AlternatingRank(c, h, IF ranker = "lrlrlr" THEN "left" ELSE "right")

C10_Witness ==
    /\ Ranked /\ ranker = "lrlrlr"
    /\ \E h \in Units :
          /\ Cardinality(LeftChildren(h)) = 1
          /\ Cardinality(RightChildren(h)) = 2
          /\ \E a \in LeftChildren(h) : Rank(a) = 0

\* unit c is in the sentence of h
SameSentence(c, h) == dtree.sent_idx[c] = dtree.sent_idx[h]

\* whether the strategy ranks the right one first, of two children at the
\* same distance on either side of the head, both in the head's sentence
\* (intra) or both outside it
RightFirst(strategy, intra) ==
    CASE strategy = "closest-intra-rl-inter-lr" -> intra
      [] strategy = "closest-intra-rl-inter-rl" -> TRUE
      [] strategy = "closest-intra-lr-inter-lr" -> FALSE

\* C11: each 'closest-intra-*' strategy ranks the children of a head that
\* are in the head's sentence before the others, then by increasing
\* distance from the head; of two children at the same distance on either
\* side of the head, 'closest-intra-rl-inter-lr' ranks the right one first
\* inside the head's sentence and the left one first outside it,
\* 'closest-intra-rl-inter-rl' the right one first in both, and
\* 'closest-intra-lr-inter-lr' the left one first in both.
C11_SentenceThenDistanceThenSide ==
    (pc = "ranked" /\ ranker \in IntraStrategies /\ dtree.has_sent_idx) =>
        /\ dt_ranks.err = ""
        /\ \A h \in 0..NumUnits(dtree) : \A a, b \in ChildrenOf(h) :
              /\ (SameSentence(a, h) /\ ~SameSentence(b, h)) => Rank(a) < Rank(b)
              /\ (SameSentence(a, h) <=> SameSentence(b, h)) =>
                    /\ TextDist(a, h) < TextDist(b, h) => Rank(a) < Rank(b)
                    /\ (TextDist(a, h) = TextDist(b, h) /\ LeftOf(a, h) /\ ~LeftOf(b, h)) =>
                           IF RightFirst(ranker, SameSentence(a, h))
                           THEN Rank(b) < Rank(a)
                           ELSE Rank(a) < Rank(b)

\* under 'closest-intra-rl-inter-lr' a head has two children outside its
\* sentence, at the same distance on either side, the left one ranked first
C11_Witness ==
    /\ Ranked /\ ranker = "closest-intra-rl-inter-lr"
    /\ \E h \in Units : \E a, b \in ChildrenOf(h) :
          /\ ~SameSentence(a, h) /\ ~SameSentence(b, h)
          /\ TextDist(a, h) = TextDist(b, h) /\ LeftOf(a, h) /\ ~LeftOf(b, h)
          /\ Rank(a) < Rank(b)

\* C12: a ranker is made only with one of the ten strategy names: with any
\* other name the constructor raises ValueError naming it and no ranker
\* comes to be, so predict never raises the 'Unknown transformation
\* strategy' RstDtException of its last branch.
C12_UnknownStrategyRejectedAtConstruction ==
    /\ ranker \in StrategySet \cup { "" }
    /\ pc \in { "ranker", "ranked" } => ranker \in StrategySet
    /\ pc = "ctor_error" =>
          /\ ranker = ""
          /\ exc.type = "ValueError"
          /\ exc.arg \notin StrategySet
    /\ pc = "ranked" => dt_ranks.err # "RstDtException"

\* the constructor was called with an unknown name and raised
C12_Witness ==
    pc = "ctor_error" /\ exc = [ type |-> "ValueError", arg |-> "bogus" ] /\ ranker = ""

\* C13: under each 'closest-intra-*' strategy, predict on any tree that has
\* no sent_idx raises ValueError and returns no rank array.
C13_NoSentencesNoRanks ==
    (pc = "ranked" /\ ranker \in IntraStrategies /\ ~dtree.has_sent_idx) =>
        /\ dt_ranks.err = "ValueError"
        /\ dt_ranks.ranks = << >>

\* The test of sent_idx is made in the loop over the heads
\* (dep2con.py:246): predict raises on a tree without sent_idx when the tree
\* has a unit, and returns the ranks [0] of the fake root alone, as under
\* every other strategy, when it has none.
NoSentencesRaisesWithAUnit ==
    (pc = "ranked" /\ ranker \in IntraStrategies /\ ~dtree.has_sent_idx) =>
        IF NumUnits(dtree) = 0
        THEN dt_ranks.err = "" /\ dt_ranks.ranks = [ i \in { 0 } |-> 0 ]
        ELSE dt_ranks.err = "ValueError" /\ dt_ranks.ranks = << >>

\* a classifier has been made
ClfMade == pc \in { "clf", "clf_predicted" }

\* the classifier's strategy is none of the two known names
UnknownClfStrategy == ~Contains(ClfStrategies, clf.strategy)

\* unit i of the tree has one of the labels
LabelIn(i, lbls) == dtree.labels[i] \in lbls

\* the multinuclear labels a strategy stands for, with the frequency table
\* that fit reads
MultinuclearSet(strategy, items) ==
    IF strategy = "unamb_else_most_frequent"
    THEN { "joint", "same-unit", "textual" }
    ELSE { items[k][1] : k \in { j \in 1..Len(items) : items[j][2] = "NN" } }

\* the labels the classifier holds after fit
Configured == { clf.multinuc_lbls[k] : k \in 1..Len(clf.multinuc_lbls) }

\* C14: a fit that succeeds sets the multinuclear labels to joint,
\* same-unit and textual under 'unamb_else_most_frequent' and to the
\* relations whose pattern in the frequency table is 'NN' under
\* 'most_frequent_by_rel'; predict after it returns one nuclearity for
\* each label of the tree, Nucleus when the label is one of the
\* multinuclear labels and Satellite when it is not.
C14_NucleusIffMultinuclear ==
    /\ [][ \A items \in FrequencyTables :
              (ClfFit(items) /\ clf'.err = "") =>
                  /\ clf'.fitted
                  /\ { clf'.multinuc_lbls[k] : k \in 1..Len(clf'.multinuc_lbls) }
                        = MultinuclearSet(clf.strategy, items) ]_vars
    /\ [](( pc = "clf_predicted" /\ clf.fitted ) =>
             /\ dt_nucs.err = ""
             /\ DOMAIN dt_nucs.seq = DOMAIN dtree.labels
             /\ \A i \in Units :
                   dt_nucs.seq[i] = IF LabelIn(i, Configured) THEN NUC_N ELSE NUC_S)

\* under 'most_frequent_by_rel' with the table in which elaboration is
\* 'NN' and joint is not, an elaboration came out Nucleus and a joint
\* Satellite
C14_Witness ==
    /\ pc = "clf_predicted" /\ clf.strategy = "most_frequent_by_rel"
    /\ dt_nucs.err = ""
    /\ \E i, j \in Units :
          /\ dtree.labels[i] = "elaboration" /\ dt_nucs.seq[i] = NUC_N
          /\ dtree.labels[j] = "joint" /\ dt_nucs.seq[j] = NUC_S

\* C15: fit on a classifier of unknown strategy raises ValueError and
\* leaves it without multinuclear labels; whatever is called on such a
\* classifier, predict returns no nuclearities.
C15_UnknownStrategyNeverPredicts ==
    /\ [][ \A items \in FrequencyTables :
              (ClfFit(items) /\ UnknownClfStrategy) =>
                  /\ clf'.err = "ValueError"
                  /\ exc'.type = "ValueError"
                  /\ ~clf'.fitted /\ clf'.multinuc_lbls = << >> ]_vars
    /\ []((ClfMade /\ UnknownClfStrategy) =>
             /\ ~clf.fitted /\ clf.multinuc_lbls = << >>
             /\ pc = "clf_predicted" =>
                   dt_nucs.err = "AttributeError" /\ dt_nucs.seq = << >>)

\* fit raised on a classifier of unknown strategy, and predict after it
\* raised as well
C15_Witness ==
    /\ pc = "clf_predicted" /\ clf.strategy = "bogus"
    /\ clf.err = "ValueError" /\ exc.type = "ValueError"
    /\ dt_nucs.err = "AttributeError"

\* C16 as stated: neither a ranker nor a classifier is ever made with an
\* unknown strategy name, the constructor of either raising on it.
C16_BothRejectAtConstruction ==
    /\ ranker \in StrategySet \cup { "" }
    /\ ClfMade => ~UnknownClfStrategy

\* C16: an unknown strategy name is refused by the constructor of the
\* ranker, which raises ValueError; the constructor of the classifier never
\* raises and stores the name as it comes, and it is fit that refuses it
\* with ValueError, so that the classifier is never fitted.
C16_RankerAtConstructionClassifierAtFit ==
    /\ ranker \in StrategySet \cup { "" }
    /\ pc = "ctor_error" => (exc.type = "ValueError" /\ exc.arg \notin StrategySet)
    /\ pc # "clf_ctor_error"
    /\ (ClfMade /\ UnknownClfStrategy) =>
          /\ ~clf.fitted
          /\ clf.err \in { "", "ValueError" }
    /\ (ClfMade /\ clf.err = "ValueError") => UnknownClfStrategy

\* a classifier was made with an unknown name, and its fit then raised
C16_Witness ==
    pc = "clf" /\ clf.strategy = "bogus" /\ clf.err = "ValueError" /\ ~clf.fitted

\* the child of a connected tree that comes from a partial tree: it has the
\* partial tree's spans, relation and children
Wraps(kid, parts) ==
    /\ kid.node.span = parts.span
    /\ kid.node.edu_span = parts.edu_span
    /\ kid.node.rel = parts.rel
    /\ kid.kids = IF parts.kids = << >> THEN << parts.edu >> ELSE parts.kids

\* span a ends before span b starts
Before(a, b) == a.char_end <= b.char_start

\* C17: connect_trees on src and tgt whose spans do not overlap returns a
\* tree of two children, the one of src and tgt that comes first in the
\* text on the left and the other on the right; the child made of src is
\* Nucleus and the child made of tgt has the nuclearity given.
C17_EarlierLeftSrcNucleus ==
    (pc = "connected" /\ ~overlaps(conn.src.span, conn.tgt.span)) =>
        /\ conn.res.err = ""
        /\ Len(conn.res.parts.kids) = 2
        /\ LET left     == conn.res.parts.kids[1]
               right    == conn.res.parts.kids[2]
               srcFirst == Before(conn.src.span, conn.tgt.span)
               ofSrc    == IF srcFirst THEN left ELSE right
               ofTgt    == IF srcFirst THEN right ELSE left
           IN  /\ srcFirst \/ Before(conn.tgt.span, conn.src.span)
               /\ Wraps(ofSrc, conn.src) /\ ofSrc.node.nuclearity = NUC_N
               /\ Wraps(ofTgt, conn.tgt) /\ ofTgt.node.nuclearity = conn.nuc
               /\ Before(left.node.span, right.node.span)
               /\ conn.res.parts.rel = conn.rel

\* a src of two units was connected with a tgt that lies before it and is
\* to be Satellite: src is the right child, and Nucleus
C17_Witness ==
    /\ pc = "connected" /\ conn.res.err = ""
    /\ conn.src.kids # << >> /\ conn.nuc = NUC_S
    /\ Before(conn.tgt.span, conn.src.span)
    /\ conn.res.parts.kids[2].node.nuclearity = NUC_N
    /\ conn.res.parts.kids[1].node.nuclearity = NUC_S

\* unit c is unit i or above it in the dependency tree
RECURSIVE Above(_, _, _)
Above(c, i, fuel) ==
    \/ i = c
    \/ i # 0 /\ fuel > 0 /\ Above(c, dtree.heads[i], fuel - 1)

\* the units of the subtree of c
SubtreeOf(c) == { i \in Units : Above(c, i, NumUnits(dtree)) }

\* the span from the first character of some units to the last
Hull(S) ==
    [ char_start |-> CHOOSE x \in { dtree.edus[i].span.char_start : i \in S } :
                        \A i \in S : x <= dtree.edus[i].span.char_start,
      char_end   |-> CHOOSE x \in { dtree.edus[i].span.char_end : i \in S } :
                        \A i \in S : x >= dtree.edus[i].span.char_end ]

\* the children of h attached before c: those of lower rank, and of equal
\* rank and lower index
AttachedBefore(h, c) ==
    { d \in ChildrenOf(h) :
        \/ dtree.ranks[d] < dtree.ranks[c]
        \/ dtree.ranks[d] = dtree.ranks[c] /\ d < c }

\* the units of the head-side subtree that c is connected to: h and the
\* subtrees of its children attached before c
HeadSide(h, c) ==
    { h } \cup UNION { SubtreeOf(d) : d \in AttachedBefore(h, c) }

\* at some connect step under the real root the head-side subtree and the
\* subtree attached have overlapping spans
OverlapAtConnect ==
    \E h \in Units : \E c \in ChildrenOf(h) :
        /\ ReachesRoot(h, NumUnits(dtree))
        /\ overlaps(Hull(HeadSide(h, c)), Hull(SubtreeOf(c)))

\* C18: when the tree has one real root and, at some connect step, the
\* head-side subtree and the subtree attached to it have overlapping
\* spans, deptree_to_simple_rst_tree raises RstDtException; and whenever it
\* raises it returns no tree.
C18_OverlapFailsWithoutTree ==
    pc = "converted" =>
        /\ (Cardinality(RootsFound) = 1 /\ OverlapAtConnect) =>
               rst.err = "RstDtException" /\ rst.roots = << >>
        /\ rst.err # "" => rst.tree = None

\* the units do not overlap and hang from one real root without a cycle,
\* yet a subtree is attached across a unit connected before: the conversion
\* raised
C18_Witness ==
    /\ pc = "converted" /\ WellFormed /\ OverlapAtConnect
    /\ rst.err = "RstDtException" /\ rst.tree = None

\* the numbers of the units in an edu-span
EduRange(es) == es[1]..es[2]

\* in tree t every leaf of a unit numbered i has the edu-span (i, i) and
\* every other node has the edu-span that is the union of those of its two
\* children, the right one starting one after the end of the left one
RECURSIVE EduSpansContiguous(_)
EduSpansContiguous(t) ==
    IF IsLeaf(t)
    THEN t.node.edu_span = << t.kids[1].num, t.kids[1].num >>
    ELSE LET l == t.kids[1].node.edu_span
             r == t.kids[2].node.edu_span
         IN  /\ EduRange(t.node.edu_span) = EduRange(l) \cup EduRange(r)
             /\ EduRange(l) \cap EduRange(r) = { }
             /\ l[2] + 1 = r[1]
             /\ EduSpansContiguous(t.kids[1])
             /\ EduSpansContiguous(t.kids[2])

\* C19: in every tree returned, the leaf of unit i has the edu-span (i, i)
\* and the edu-span of every other node is the union of those of its
\* children, which are disjoint and contiguous.
C19_EduSpansContiguousAlways ==
    Converted => EduSpansContiguous(rst.tree)

\* The trees returned with a gap between the children of a node are those
\* of the dependency trees that have a cycle beside their real root: the
\* units of the cycle are never walked (dep2con.py:476-490).
GapOnlyWithACycle ==
    (Converted /\ Acyclic) => EduSpansContiguous(rst.tree)

\* the nuclearities of the nodes of tree t below its top node
RECURSIVE NuclearitiesBelow(_)
NuclearitiesBelow(t) ==
    IF IsLeaf(t) THEN { }
    ELSE UNION { { t.kids[k].node.nuclearity } \cup NuclearitiesBelow(t.kids[k]) :
                     k \in 1..2 }

\* C20: in every tree returned the top node is Root and every node below
\* it is Nucleus or Satellite; a real root without dependents, as is the
\* one unit of a tree of one unit, comes out as a Root leaf holding the
\* unit, connected to nothing.
C20_OnlyTheTopIsRoot ==
    Converted =>
        /\ rst.tree.node.nuclearity = NUC_R
        /\ NuclearitiesBelow(rst.tree) \subseteq { NUC_N, NUC_S }
        /\ \A r \in RootsFound :
              /\ ChildrenOf(r) = { } =>
                    /\ IsLeaf(rst.tree)
                    /\ rst.tree.kids = << dtree.edus[r] >>
                    /\ rst.tree.node.rel = "leaf"
              /\ ChildrenOf(r) # { } => ~IsLeaf(rst.tree)
        /\ NumUnits(dtree) = 1 => IsLeaf(rst.tree)

\* a tree of several units was returned with nuclei and satellites below
\* its Root
C20_Witness ==
    /\ Converted /\ NumUnits(dtree) >= 3
    /\ rst.tree.node.nuclearity = NUC_R
    /\ NuclearitiesBelow(rst.tree) = { NUC_N, NUC_S }

\* a tree of one unit was returned: a Root leaf
OneUnitRootLeaf ==
    Converted /\ NumUnits(dtree) = 1 /\ IsLeaf(rst.tree)
        /\ rst.tree.node.nuclearity = NUC_R

\* the tree as it was given to the passes: the nuclearities it came with
\* and no ranks
AsGiven ==
    [ dtree EXCEPT !.nucs  = [ i \in Units |-> unit_nuc(i) ],
                   !.ranks = [ i \in 0..NumUnits(dtree) |-> 0 ] ]

\* C21: whichever of the two passes comes first, the nuclearities returned
\* are those the classifier returns for the tree as given and the ranks
\* returned those the ranker returns for the tree as given; and the tree
\* ends with both set on it.
C21_PassesCommute ==
    /\ pc \in { "nuc_done", "nuc_rank_done", "rank_nuc_done" } =>
          /\ dt_nucs = clf_predict(clf, AsGiven)
          /\ dtree.nucs = dt_nucs.seq
    /\ pc \in { "rank_done", "nuc_rank_done", "rank_nuc_done" } =>
          /\ dt_ranks = predict_ranks(ranker, AsGiven)
          /\ dt_ranks.err = "" => dtree.ranks = dt_ranks.ranks
    /\ pc \in { "nuc_done", "rank_done" } =>
          /\ dtree.heads = AsGiven.heads /\ dtree.labels = AsGiven.labels
          /\ dtree.sent_idx = AsGiven.sent_idx

\* the ranks were set first and the nuclearities after them, on a tree in
\* which some unit has a rank above 0 and is made a satellite, another a
\* nucleus
C21_Witness ==
    /\ pc = "rank_nuc_done" /\ dt_ranks.err = ""
    /\ \E i, j \in Units :
          /\ dtree.ranks[i] > 0 /\ dtree.nucs[i] = NUC_S /\ unit_nuc(i) = NUC_N
          /\ dtree.nucs[j] = NUC_N /\ unit_nuc(j) = NUC_S

\* C22: when predict on a batch returns, the rank array and the
\* nuclearity array it holds for a tree are those predict returns for the
\* tree alone, whatever the other tree of the batch is, whether it comes
\* before or after, and in whatever order the heads of the tree are
\* iterated; and when predict on the tree alone raises, so does predict on
\* the batch.
C22_PerTreeResult ==
    pc = "batch_done" =>
        /\ batch.res.err = "" =>
              /\ dt_ranks.err = ""
              /\ batch.res.dt_ranks[batch.at] = dt_ranks.ranks
        /\ batch.y.err = "" =>
              /\ dt_nucs.err = ""
              /\ batch.y.y[batch.at] = dt_nucs.seq
        /\ dt_ranks.err # "" => batch.res.err # ""
        /\ Len(batch.X) = 1 => batch.res.err = dt_ranks.err

\* a tree of the largest size was ranked in a batch after a tree of two
\* units, with the ranks it has alone, which are not those of the other
C22_Witness ==
    /\ pc = "batch_done" /\ batch.at = 2 /\ batch.res.err = ""
    /\ NumUnits(dtree) = MaxBatchN
    /\ NumUnits(batch.X[1]) = 2
    /\ \E i \in Units : dt_ranks.ranks[i] > 0
    /\ batch.res.dt_ranks[2] = dt_ranks.ranks
    /\ batch.res.dt_ranks[1] # dt_ranks.ranks

\* the heads of a tree with several heads were iterated in a given order
SeveralHeadsIterated ==
    /\ pc = "batch_done" /\ Len(batch.X) = 1 /\ batch.res.err = ""
    /\ Cardinality(unique_heads(dtree)) >= 2
    /\ \E i \in Units : dt_ranks.ranks[i] > 0

\* a step is a call of the ranker's predict, of the classifier's predict or
\* of deptree_to_simple_rst_tree
RankerPredictStep == pc = "ranker" /\ pc' = "ranked"

ClfPredictStep == pc = "clf" /\ pc' = "clf_predicted"

ConvertStep == pc = "attached" /\ pc' = "converted"

\* C23: a call of the classifier's predict, of the ranker's predict or of
\* deptree_to_simple_rst_tree leaves the tree as it was (heads, labels,
\* nuclearities, units and all the rest), and the strategy of the ranker
\* and the strategy and multinuclear labels of the classifier; it changes
\* nothing but the value it returns.
C23_PredictAndConvertLeaveInputs ==
    [][ (RankerPredictStep \/ ClfPredictStep \/ ConvertStep) =>
            /\ dtree' = dtree
            /\ ranker' = ranker
            /\ clf' = clf
            /\ RankerPredictStep => UNCHANGED << rst, dt_nucs >>
            /\ ClfPredictStep => UNCHANGED << rst, dt_ranks >>
            /\ ConvertStep => UNCHANGED << dt_ranks, dt_nucs >> ]_vars

\* the ranker has returned ranks above 0 for a tree that still has none
C23_Witness ==
    /\ pc = "ranked" /\ dt_ranks.err = ""
    /\ \E i \in Units : dt_ranks.ranks[i] > 0
    /\ \A i \in Units : dtree.ranks[i] = 0

\* the nodes of tree t that have two children
RECURSIVE InternalNodes(_)
InternalNodes(t) ==
    IF IsLeaf(t) THEN { }
    ELSE { t } \cup InternalNodes(t.kids[1]) \cup InternalNodes(t.kids[2])

\* the units at the leaves of tree t
RECURSIVE UnitsIn(_)
UnitsIn(t) ==
    IF IsLeaf(t) THEN { t.kids[1].num + 1 }
    ELSE UnitsIn(t.kids[1]) \cup UnitsIn(t.kids[2])

\* the nodes of the returned tree made for the edge from h to c: labelled
\* like c, one child over h and the subtrees of the children of h attached
\* before c, the other over the subtree of c
NodesOfEdge(h, c) ==
    { t \in InternalNodes(rst.tree) :
        /\ t.node.rel = dtree.labels[c]
        /\ { UnitsIn(t.kids[1]), UnitsIn(t.kids[2]) }
              = { HeadSide(h, c), SubtreeOf(c) } }

\* the child of h attached last
LastAttached(h) ==
    CHOOSE c \in ChildrenOf(h) : \A d \in ChildrenOf(h) \ { c } : d \in AttachedBefore(h, c)

\* every edge of the tree has one node, and every node is the node of an
\* edge
OneNodeForEachEdge ==
    /\ \A h \in Units : \A c \in ChildrenOf(h) : Cardinality(NodesOfEdge(h, c)) = 1
    /\ InternalNodes(rst.tree) =
          UNION { UNION { NodesOfEdge(h, c) : c \in ChildrenOf(h) } : h \in Units }

\* the top node is labelled like the child of the real root attached last
TopIsLastOfRoot ==
    \A r \in RootsFound :
        ChildrenOf(r) # { } => rst.tree.node.rel = dtree.labels[LastAttached(r)]

\* C24: in every tree returned, every edge from a head h to a child c has
\* exactly one node, labelled like c, over the accumulated subtree of h on
\* one side and the subtree of c on the other, and the top node is labelled
\* like the last child of the real root.
C24_EveryEdgeOneNode ==
    Converted => (OneNodeForEachEdge /\ TopIsLastOfRoot)

\* The trees returned with an edge that has no node are those of the
\* dependency trees that have a cycle beside their real root.
EdgeWithoutNodeOnlyWithACycle ==
    (Converted /\ Acyclic) => (OneNodeForEachEdge /\ TopIsLastOfRoot)

\* the number of units from unit i up to the real root, both counted
RECURSIVE UnitsToRoot(_, _)
UnitsToRoot(i, fuel) ==
    IF i = 0 \/ fuel = 0 THEN 0 ELSE 1 + UnitsToRoot(dtree.heads[i], fuel - 1)

\* the depth of the dependency tree: the units of its longest chain
TreeDepth ==
    CHOOSE d \in 0..NumUnits(dtree) :
        /\ \A i \in Units : UnitsToRoot(i, NumUnits(dtree)) <= d
        /\ \E i \in Units : UnitsToRoot(i, NumUnits(dtree)) = d

\* C25: the conversion of a tree of n units with one real root and no
\* cycle ends; when it returns a tree, it has called walk once for every
\* unit and connect_trees n - 1 times, never more than the depth of the
\* dependency tree calls of walk inside one another and that many on its
\* longest chain, and the tree has n leaves, one for each unit, and n - 1
\* other nodes of two children each; when it raises, it has made no more
\* calls than that.
C25_OneWalkPerUnit ==
    (pc = "converted" /\ Cardinality(RootsFound) = 1 /\ Acyclic) =>
        LET n == NumUnits(dtree)
        IN  /\ rst.err \in { "", "RstDtException" }
            /\ rst.err = "" =>
                  /\ calls = [ walks |-> n, connects |-> n - 1, depth |-> TreeDepth ]
                  /\ Len(Leaves(rst.tree)) = n
                  /\ UnitsIn(rst.tree) = Units
                  /\ Cardinality(InternalNodes(rst.tree)) = n - 1
                  /\ \A t \in InternalNodes(rst.tree) : Len(t.kids) = 2
            /\ rst.err # "" =>
                  /\ calls.walks <= n /\ calls.connects <= n - 1
                  /\ calls.depth <= TreeDepth

\* a tree of four units in a chain of three was converted
C25_Witness ==
    /\ Converted /\ Acyclic /\ NumUnits(dtree) = 4
    /\ TreeDepth = 3
    /\ calls = [ walks |-> 4, connects |-> 3, depth |-> 3 ]

\* The strategies whose sort keys read no sentence index (dep2con.py:183-240).
NoSentenceStrategies ==
    { "id", "lllrrr", "rrrlll", "lrlrlr", "rlrlrl", "closest-lr", "closest-rl" }

\* C26: under every strategy that needs no sentence information, predict
\* returns a rank array and raises nothing, whatever the number of children
\* on each side of a head (the units of a tree are in text order, so their
\* start positions are distinct).
C26_NoSentenceStrategiesNeverRaise ==
    (pc = "ranked" /\ ranker \in NoSentenceStrategies) => dt_ranks.err = ""

\* every subtree covers a contiguous run of units
Projective ==
    \A c \in Units :
        \A i \in Units :
            (\E a, b \in SubtreeOf(c) : a <= i /\ i <= b) => i \in SubtreeOf(c)

\* the ranks of the tree were predicted by a ranker and set by the caller
RankedByRanker == ranker # "" /\ dtree.ranks = dt_ranks.ranks

\* some head's rank order places a farther child before a nearer child on
\* the same side
FartherBeforeNearer ==
    \E h \in Units : \E c, d \in ChildrenOf(h) :
        /\ SameSide(c, d, h)
        /\ TextDist(d, h) > TextDist(c, h)
        /\ d \in AttachedBefore(h, c)

\* connect_trees raised for overlapping spans (the tree has its one root)
OverlapError ==
    /\ pc = "converted" /\ Cardinality(RootsFound) = 1
    /\ rst.err = "RstDtException"

\* C27: a projective tree that has one real root, ranked by any strategy
\* and then converted, never raises the span-overlap error; and
\* when some head's rank order places a farther child before a nearer child
\* on the same side, the conversion raises the overlap error and returns no
\* tree.
C27_ProjectiveRankedNeverOverlaps ==
    (pc = "converted" /\ Cardinality(RootsFound) = 1) =>
        /\ (RankedByRanker /\ Projective) => rst.err = ""
        /\ FartherBeforeNearer => OverlapError /\ rst.tree = None

\* a head reached from the real root has among its children, on the same
\* side, a farther one attached before a nearer one
FartherBeforeNearerWalked ==
    \E h \in Units : \E c, d \in ChildrenOf(h) :
        /\ ReachesRoot(h, NumUnits(dtree))
        /\ SameSide(c, d, h)
        /\ TextDist(d, h) > TextDist(c, h)
        /\ d \in AttachedBefore(h, c)

\* What the conversion does with the ranks it is given, cycle or not
\* (dep2con.py:409-429, 476-490): a farther child attached before a nearer
\* one under a head that is walked makes connect_trees raise; and a
\* projective tree whose units are apart is converted, unless its ranks are
\* of that kind.
RaisesOnWalkedHeadsOnly ==
    (pc = "converted" /\ Cardinality(RootsFound) = 1) =>
        /\ FartherBeforeNearerWalked => OverlapError /\ rst.tree = None
        /\ (Acyclic /\ Projective /\ UnitsApart /\ ~FartherBeforeNearer) =>
               rst.err = ""

\* the edges head -> child walked by the conversion
WalkedEdges ==
    { e \in Units \X Units :
        /\ e[2] \in ChildrenOf(e[1])
        /\ ReachesRoot(e[1], NumUnits(dtree)) }

\* the child of node t that is the subtree built for unit c
DependentKid(t, c) == CHOOSE k \in 1..2 : UnitsIn(t.kids[k]) = SubtreeOf(c)

\* from t down to the leaf of unit i, every child on the way is a Nucleus
RECURSIVE NucleusPath(_, _)
NucleusPath(t, i) ==
    \/ IsLeaf(t) /\ UnitsIn(t) = { i }
    \/ /\ ~IsLeaf(t)
       /\ \E k \in 1..2 :
             /\ i \in UnitsIn(t.kids[k])
             /\ t.kids[k].node.nuclearity = NUC_N
             /\ NucleusPath(t.kids[k], i)

\* C28: in every returned tree every internal node has a Nucleus child;
\* it is the node of one walked edge head -> child, the child's subtree
\* carrying the nuclearity of the child and the other one being a Nucleus,
\* so that both are Nucleus exactly when the attached dependent's
\* nuclearity is Nucleus; and the path from the top node down to the leaf
\* of the real root passes only through Nucleus children.
C28_NucleusOnTheHeadSide ==
    Converted =>
        /\ \A t \in InternalNodes(rst.tree) :
              /\ \E k \in 1..2 : t.kids[k].node.nuclearity = NUC_N
              /\ \E e \in WalkedEdges : t \in NodesOfEdge(e[1], e[2])
              /\ \A e \in WalkedEdges :
                    t \in NodesOfEdge(e[1], e[2]) =>
                        LET k == DependentKid(t, e[2])
                        IN  /\ t.kids[k].node.nuclearity = dtree.nucs[e[2]]
                            /\ t.kids[3 - k].node.nuclearity = NUC_N
                            /\ (\A j \in 1..2 : t.kids[j].node.nuclearity = NUC_N)
                                   <=> dtree.nucs[e[2]] = NUC_N
        /\ \A r \in RootsFound : NucleusPath(rst.tree, r)

\* the tree of four units has a Satellite dependent on the left of its
\* head, a Nucleus dependent, and the real root three levels down
C28_Witness ==
    /\ Converted /\ NumUnits(dtree) = 4
    /\ \E e \in WalkedEdges :
          /\ dtree.nucs[e[2]] = NUC_S /\ LeftOf(e[2], e[1])
          /\ \E t \in NodesOfEdge(e[1], e[2]) : t.kids[1].node.nuclearity = NUC_S
    /\ \E e \in WalkedEdges :
          /\ dtree.nucs[e[2]] = NUC_N
          /\ \E t \in NodesOfEdge(e[1], e[2]) :
                \A j \in 1..2 : t.kids[j].node.nuclearity = NUC_N
    /\ \E r \in RootsFound : Cardinality(ChildrenOf(r)) = 3

\* the units of the graph, in text order
RfcNodes == first_widest_dus(rfc.graph)

\* the links of the graph
RfcLinks == { rfc.graph.links[k] : k \in 1..Len(rfc.graph.links) }

\* the right frontier of unit last: the chain last, points[last],
\* points[points[last]], ... of frontier()
RightFrontier(last) ==
    LET points == frontier(rfc.graph)
        chain  == yields_upto(points, last, Cardinality(DOMAIN points))
    IN  { chain[i] : i \in 1..Len(chain) }

\* the relation instances into a unit that has a unit before it, whose
\* source is not on the right frontier of the unit before
OffFrontier ==
    { << lnk.nodes[1], lnk >> :
        lnk \in { l \in RfcLinks :
                    /\ is_relation(l)
                    /\ \E i \in 2..Len(RfcNodes) :
                          /\ l.nodes[2] = RfcNodes[i]
                          /\ l.nodes[1] \notin RightFrontier(RfcNodes[i - 1]) } }

\* what violations() returned, as pairs (node2, link)
Reported ==
    UNION { { << node2, rfc.res.res[node2][k] >> :
                k \in 1..Len(rfc.res.res[node2]) } :
              node2 \in DOMAIN rfc.res.res }

ViolationsCalled == pc \in { "violations_done", "violations_running" }

\* when violations() returns, it returns the links off the frontier
ReturnedIsOffFrontier ==
    pc = "violations_done" =>
        /\ Reported = OffFrontier
        /\ \A p \in Reported :
              LET lnk == p[2]
              IN  /\ lnk.nodes[2] # RfcNodes[1]
                  /\ \A i \in 2..Len(RfcNodes) :
                        lnk.nodes[2] = RfcNodes[i] => lnk.nodes[1] # RfcNodes[i - 1]
        /\ Len(RfcNodes) < 2 => rfc.res.res = << >>

\* C29: violations() returns, under its source node2, each relation
\* instance into a unit node1 whose source is not on the right frontier of
\* the unit before node1, and no other; so an instance whose source is the
\* unit just before is not reported, nor one into the first unit, and with
\* fewer than two units nothing is.
C29_ViolationsAreTheLinksOffTheFrontier ==
    ViolationsCalled =>
        /\ rfc.res.returns
        /\ Reported = OffFrontier
        /\ Len(RfcNodes) < 2 => rfc.res.res = << >>

\* C30: a walk up the right frontier, once started, comes to its end,
\* having yielded no node twice and stopped after a node that points maps
\* to None (or to a unit that points does not hold).
C30_WalkTerminates ==
    (pc = "walking") ~>
        /\ pc = "walk_done"
        /\ \A node \in DOMAIN rfc.yields : rfc.yields[node] <= 1
        /\ rfc.points[Last(rfc.path)] \notin DOMAIN rfc.points

====
